---- MODULE Spec2Model ----
(***************************************************************************)
(* The eywa encephalon: BoxEcp geometry, Encephalon construction and the   *)
(* run_cycle driver with the sensory / plastic / actuator neuron steps.    *)
(*                                                                         *)
(* Reals (f32) are fixed-point integers in units of 1/One.  Every value    *)
(* the model reaches is a dyadic fraction with at most FracBits fractional *)
(* bits, so the arithmetic below is exact and is also what f32 computes.   *)
(***************************************************************************)
EXTENDS Integers, Sequences, FiniteSets, TLC

\* Number of run_cycle calls explored.
MaxCycles == 4

FracBits == 2 * MaxCycles
One == 2 ^ FracBits

\* a * b for fixed-point operands
Mul(a, b) == (a * b) \div One

None == [some |-> FALSE]
Some(v) == [some |-> TRUE, val |-> v]

Reverse(s) == [i \in 1..Len(s) |-> s[Len(s) + 1 - i]]

RECURSIVE SumSeq(_)
SumSeq(s) == IF s = <<>> THEN 0 ELSE Head(s) + SumSeq(Tail(s))

(***************************************************************************)
(* neuron.rs: ChargeCycle, InternalCharge, FireTracker                     *)
(***************************************************************************)
Even == "Even"
Odd == "Odd"

next_cycle(cycle) == IF cycle = Even THEN Odd ELSE Even

\* InternalCharge(f32, f32): field .0 is the Even slot, .1 the Odd slot
InternalCharge_new == [c0 |-> 0, c1 |-> 0]

get_charge(ic, cycle) == IF cycle = Even THEN ic.c0 ELSE ic.c1

\* variant: the slot is left as it is (told apart by C5_CurrentSlotZero)
reset_charge_kept(ic, cycle) == ic

reset_charge(ic, cycle) ==
    IF cycle = Even THEN [ic EXCEPT !.c0 = 0] ELSE [ic EXCEPT !.c1 = 0]

\* variant: the impulse lands in the slot of the running cycle (told apart by
\* C1_OrderIndependence)
incr_next_charge_same_slot(ic, cycle, incr_charge) ==
    LET new_charge == get_charge(ic, cycle) + incr_charge
    IN  IF cycle = Even THEN [ic EXCEPT !.c0 = new_charge]
                        ELSE [ic EXCEPT !.c1 = new_charge]

\* variant: the impulse is taken off the slot (told apart by
\* C28_NegativeOnlyByInhibition)
incr_next_charge_subtracted(ic, cycle, incr_charge) ==
    LET nxt == next_cycle(cycle)
        new_charge == get_charge(ic, nxt) - incr_charge
    IN  IF nxt = Even THEN [ic EXCEPT !.c0 = new_charge]
                      ELSE [ic EXCEPT !.c1 = new_charge]

incr_next_charge(ic, cycle, incr_charge) ==
    LET nxt == next_cycle(cycle)
        new_charge == get_charge(ic, nxt) + incr_charge
    IN  IF nxt = Even THEN [ic EXCEPT !.c0 = new_charge]
                      ELSE [ic EXCEPT !.c1 = new_charge]

FireTracker_new ==
    [v0 |-> FALSE, v1 |-> FALSE, last_recorded_current_cycle |-> Even,
     prev_prev |-> FALSE]

tracker_value(ft, cycle) == IF cycle = Even THEN ft.v0 ELSE ft.v1

\* variant: reads the slot of the running cycle (told apart by C6_FireTracking)
tracker_fired_on_prev_cycle_same_slot(ft, cycle) == tracker_value(ft, cycle)

tracker_fired_on_prev_cycle(ft, cycle) == tracker_value(ft, next_cycle(cycle))

tracker_fired_on_prev_prev(ft, cycle) ==
    IF ft.last_recorded_current_cycle = cycle
    THEN ft.prev_prev
    ELSE tracker_value(ft, cycle)

set_tracker(ft, cycle, fired) ==
    LET a == [ft EXCEPT !.last_recorded_current_cycle = cycle,
                        !.prev_prev = tracker_value(ft, cycle)]
    IN  IF cycle = Even THEN [a EXCEPT !.v0 = fired] ELSE [a EXCEPT !.v1 = fired]

\* EMA update law of the three run_cycle bodies
\* variants: no decay of the old average (told apart by C7_EmaBounded and by
\* C8_EmaMoves)
ema_fired_no_decay(alpha, ema) == alpha + ema
ema_not_fired_no_decay(alpha, ema) == ema

\* variant: the branch of a neuron that did not fire adds alpha as well (told
\* apart by C35_Quiescence)
ema_not_fired_as_fired(alpha, ema) == alpha + Mul(One - alpha, ema)

ema_fired(alpha, ema) == alpha + Mul(One - alpha, ema)
ema_not_fired(alpha, ema) == Mul(One - alpha, ema)

(***************************************************************************)
(* neuron/synapse.rs: EmStrength, SynapticType, synapses                   *)
(***************************************************************************)
Excitatory == "Excitatory"
Inhibitory == "Inhibitory"

get_synapse_modifier(t) == IF t = Excitatory THEN 1 ELSE -1

EmStrength_new(max_value, weakness_threshold, alpha) ==
    [strength |-> max_value \div 2, max_value |-> max_value,
     weakness_threshold |-> weakness_threshold, alpha |-> alpha]

get_strength(s) == s.strength

\* variant: the step is taken from max_value, not from the distance left to it
\* (told apart by C27_StrengthBounded)
strengthen_by_max_value(s) ==
    [s EXCEPT !.strength = s.strength + Mul(s.alpha, s.max_value)]

strengthen(s) ==
    [s EXCEPT !.strength = s.strength + Mul(s.alpha, s.max_value - s.strength)]

weaken(s) == [s EXCEPT !.strength = s.strength - Mul(s.alpha, s.strength)]

\* variant: a strength equal to the threshold counts as above it (told apart
\* by C20_PruneRule)
above_weakness_threshold_or_at(s) == s.strength >= s.weakness_threshold

above_weakness_threshold(s) == s.strength > s.weakness_threshold

\* ln 2 as a fixed-point number
Ln2 == (693 * One) \div 1000

\* f32::exp: exact at the multiples of ln 2, linear between two of them
exp(x) ==
    LET q == x \div Ln2
        frac == One + ((x % Ln2) * One) \div Ln2
    IN  IF q >= 0 THEN frac * (2 ^ q) ELSE frac \div (2 ^ (0 - q))

SigmoidStrength_new(max_value, weakness_threshold, x_incr) ==
    [x_value |-> 0, x_incr |-> x_incr, max_value |-> max_value,
     weakness_threshold |-> weakness_threshold]

SigmoidStrength_get_strength(s) ==
    (s.max_value * One) \div (One + exp((0 - 1) * s.x_value))

SigmoidStrength_strengthen(s) == [s EXCEPT !.x_value = s.x_value + s.x_incr]

SigmoidStrength_weaken(s) == [s EXCEPT !.x_value = s.x_value - s.x_incr]

SigmoidStrength_above_weakness_threshold(s) ==
    SigmoidStrength_get_strength(s) > s.weakness_threshold

\* a call through the trait object dyn SynapticStrength
IsSigmoid(s) == "x_value" \in DOMAIN s

dyn_get_strength(s) ==
    IF IsSigmoid(s) THEN SigmoidStrength_get_strength(s) ELSE get_strength(s)

dyn_strengthen(s) ==
    IF IsSigmoid(s) THEN SigmoidStrength_strengthen(s) ELSE strengthen(s)

dyn_weaken(s) == IF IsSigmoid(s) THEN SigmoidStrength_weaken(s) ELSE weaken(s)

PlasticSynapse_new(strength, synaptic_type, target) ==
    [strength |-> strength, synaptic_type |-> synaptic_type, target |-> target]

StaticSynapse_new(strength, synaptic_type, target) ==
    [strength |-> strength, synaptic_type |-> synaptic_type, target |-> target]

plastic_impulse(syn) ==
    get_strength(syn.strength) * get_synapse_modifier(syn.synaptic_type)

static_impulse(syn) == syn.strength * get_synapse_modifier(syn.synaptic_type)

(***************************************************************************)
(* ecp_geometry.rs: BoxEcp                                                 *)
(***************************************************************************)
\* (n as f32).powf(1. / 3.).floor() as u32
CubeRootFloor(n) ==
    CHOOSE k \in 0..n : k * k * k <= n /\ (k + 1) * (k + 1) * (k + 1) > n

NoGeometry ==
    [num_plastic |-> 0, num_actuator |-> 0, num_sensory |-> 0,
     nearby_side_length |-> 0, side_length |-> 0]

\* Result of BoxEcp::new: panic = "" when a geometry is returned.  The u32
\* subtraction `nearby_length -= 1` on 0 aborts with an arithmetic overflow
\* (a build without overflow checks wraps to u32::MAX, whose wrapped cube
\* u32::MAX exceeds every volume, and aborts on the next test instead).
BoxEcp_new(desired_num_plastic, num_sensory, num_actuator, nearby_count) ==
    LET side_length == CubeRootFloor(desired_num_plastic)
        area == side_length ^ 2
        volume == side_length ^ 3
        root == CubeRootFloor(nearby_count)
        nearby_length == IF root % 2 = 0 THEN root - 1 ELSE root
    IN  IF num_actuator > area
        THEN [panic |-> "actuators exceed area", geo |-> NoGeometry]
        ELSE IF num_sensory > area
        THEN [panic |-> "sensory exceed area", geo |-> NoGeometry]
        ELSE IF nearby_length < 0
        THEN [panic |-> "subtract with overflow", geo |-> NoGeometry]
        ELSE IF nearby_length ^ 3 > volume
        THEN [panic |-> "nearby exceeds volume", geo |-> NoGeometry]
        ELSE [panic |-> "",
              geo |-> [num_plastic |-> volume, num_actuator |-> num_actuator,
                       num_sensory |-> num_sensory,
                       nearby_side_length |-> nearby_length,
                       side_length |-> side_length]]

RECURSIVE JoinInts(_)
JoinInts(loc) ==
    IF Len(loc) = 0 THEN ""
    ELSE IF Len(loc) = 1 THEN ToString(loc[1])
    ELSE ToString(loc[1]) \o ", " \o JoinInts(Tail(loc))

\* variant: only the first two coordinates are printed (told apart by
\* C26_ReceiverIndex)
loc_hash_without_z(loc) == "[" \o JoinInts(SubSeq(loc, 1, 2)) \o "]"

\* format!("{:?}", loc) of a Vec<i32>
loc_hash(loc) == "[" \o JoinInts(loc) \o "]"

first_rx_loc == [loc |-> <<0, 0, 0>>, hash |-> loc_hash(<<0, 0, 0>>), kind |-> "Plastic"]

next_rx_loc(geo, curr_loc) ==
    IF Len(curr_loc) < 3 THEN None
    ELSE
    LET x == curr_loc[1]
        y == curr_loc[2]
        z == curr_loc[3]
        last_position == geo.side_length - 1
        at_end == x = last_position /\ y = last_position /\ z = last_position
        new_x == IF x = last_position THEN 0 ELSE x + 1
        new_y == IF x = last_position
                 THEN (IF y = last_position THEN 0 ELSE y + 1)
                 ELSE y
        new_z == IF x = last_position /\ y = last_position THEN z + 1 ELSE z
        new_loc == <<new_x, new_y, new_z>>
        plane_position == (new_y * geo.side_length) + new_x + 1
        is_actuator == plane_position <= geo.num_actuator
        \* both arms of `if is_actuator` build RxNeuron::Plastic
        kind == IF new_z = last_position
                THEN (IF is_actuator THEN "Plastic" ELSE "Plastic")
                ELSE "Plastic"
    IN  IF at_end THEN None
        ELSE Some([loc |-> new_loc, hash |-> loc_hash(new_loc), kind |-> kind])

first_sensory_loc == [loc |-> <<0, 0, -1>>, hash |-> loc_hash(<<0, 0, -1>>)]

next_sensory_loc(geo, curr_loc) ==
    IF Len(curr_loc) < 2 THEN None
    ELSE
    LET x == curr_loc[1]
        y == curr_loc[2]
        last_position == geo.side_length - 1
        new_x == IF x = last_position THEN 0 ELSE x + 1
        new_y == IF x = last_position THEN y + 1 ELSE y
        new_loc == <<new_x, new_y>>
    IN  IF x = last_position /\ y = last_position THEN None
        ELSE Some([loc |-> new_loc, hash |-> loc_hash(new_loc)])

\* rand 0.7 Rng::gen_range(low, high): a value of [low, high), and a panic
\* when the range is empty.  `word` is the raw random word of the generator.
gen_range(low, high, word) ==
    IF low >= high THEN [panic |-> TRUE, val |-> low]
    ELSE [panic |-> FALSE, val |-> low + (word % (high - low))]

local_bottom(c, dist_from_center, nearby_side_length, last_position) ==
    LET bottom == c - dist_from_center
    IN  IF bottom < 0 THEN 0
        ELSE IF bottom + (nearby_side_length - 1) > last_position
        THEN last_position - (nearby_side_length - 1)
        ELSE bottom

\* words: the three raw random words drawn by this call, in x, y, z order
local_random_hash(geo, loc, words) ==
    IF Len(loc) < 3 THEN [panic |-> FALSE, hash |-> None]
    ELSE
    LET last_position == geo.side_length - 1
        n == geo.nearby_side_length
        dist_from_center == (n - 1) \div 2
        bottom_x == local_bottom(loc[1], dist_from_center, n, last_position)
        bottom_y == local_bottom(loc[2], dist_from_center, n, last_position)
        bottom_z == local_bottom(loc[3], dist_from_center, n, last_position)
        rand_x == gen_range(bottom_x, bottom_x + n - 1, words[1])
        rand_y == gen_range(bottom_y, bottom_y + n - 1, words[2])
        rand_z == gen_range(bottom_z, bottom_z + n - 1, words[3])
    IN  IF rand_x.panic \/ rand_y.panic \/ rand_z.panic
        THEN [panic |-> TRUE, hash |-> None]
        ELSE [panic |-> FALSE,
              hash |-> Some(loc_hash(<<rand_x.val, rand_y.val, rand_z.val>>))]

(***************************************************************************)
(* neuron_interfaces.rs: sensory encoders; interface cycles                *)
(***************************************************************************)
\* f32::round followed by the saturating cast `as u32`
round_as_u32(v) == IF v < 0 THEN 0 ELSE (v + (One \div 2)) \div One

linear_encoder(input, y_int) ==
    round_as_u32(((((One - y_int) * input)) \div One) + y_int)

\* The value of `x as u32` for x = +inf.  u32::MAX = 4294967295 is beyond the
\* integers the model computes with; 2^31 - 1 stands for it, like it larger than
\* every cycle count.
u32_MAX == 2147483647

RECURSIVE GCD(_, _)
GCD(a, b) == IF b = 0 THEN a ELSE GCD(b, a % b)

\* ln(rn / rd) / ln(qn / qd) >= m / 2 for fractions in (0, 1), without
\* logarithms: (rn / rd)^2 <= (qn / qd)^m
LogRatioAtLeastHalf(rn, rd, qn, qd, m) ==
    m <= 0 \/ rn * rn * (qd ^ m) <= rd * rd * (qn ^ m)

\* round(ln(r) / ln(q) + 1.) for r = rn / rd and q = qn / qd in (0, 1), halves
\* rounded away from zero: the k with k - 1/2 <= ln(r) / ln(q) + 1 < k + 1/2
RECURSIVE RoundLogRatioPlusOne(_, _, _, _, _)
RoundLogRatioPlusOne(rn, rd, qn, qd, k) ==
    IF LogRatioAtLeastHalf(rn, rd, qn, qd, 2 * k - 1)
    THEN RoundLogRatioPlusOne(rn, rd, qn, qd, k + 1)
    ELSE k

\* (((1. - (alpha / input)).ln() / (1. - alpha).ln()) + 1.).round() as u32, for
\* input >= 0 and alpha in (0, 1).  input = 0: alpha / 0. = +inf, ln(-inf) = NaN,
\* and NaN as u32 = 0.  0 < input < alpha: the logarithm of a negative number,
\* NaN again.  input = alpha: ln(0.) = -inf, the quotient +inf, saturated.
ema_encoder(input, alpha) ==
    IF input < alpha THEN 0
    ELSE IF input = alpha THEN u32_MAX
    ELSE LET g == GCD(input, input - alpha)
             h == GCD(One, One - alpha)
         IN  RoundLogRatioPlusOne((input - alpha) \div g, input \div g,
                                  (One - alpha) \div h, One \div h, 1)

\* (1. / input).round() as u32 for input >= 0; 1. / 0. = +inf, saturated
inverse_encoder(input) ==
    IF input = 0 THEN u32_MAX
    ELSE (2 * One + input) \div (2 * input)

EMA(alpha) == [kind |-> "EMA", param |-> alpha]
Linear(y_int) == [kind |-> "Linear", param |-> y_int]
Inverse == [kind |-> "Inverse", param |-> 0]

encode_sensory_input(input, encoder) ==
    IF encoder.kind = "EMA" THEN ema_encoder(input, encoder.param)
    ELSE IF encoder.kind = "Linear" THEN linear_encoder(input, encoder.param)
    ELSE inverse_encoder(input)

\* SensoryInterface::run_cycle: one measurement, encoded, stored as the period
SensoryInterface_run_cycle(si, sn) ==
    [sn EXCEPT ![si.sensory_neuron].period =
        linear_encoder(si.sensor.value, si.encoder_y_int)]

\* ActuatorInterface::run_cycle: the neuron's EMA handed to the actuator
ActuatorInterface_run_cycle(ai, rx) == rx[ai.actuator_neuron].ema

(***************************************************************************)
(* State                                                                   *)
(***************************************************************************)
VARIABLES
    cfg,                 \* the caller's arguments to BoxEcp::new and Encephalon::new
    stage,               \* where the caller / run_cycle stands
    ecp_geometry,        \* Encephalon.ecp_geometry (BoxEcp fields)
    cycle_count,         \* Encephalon.cycle_count
    rx_neurons,          \* Encephalon.rx_neurons: hash -> neuron
    sensory_neurons,     \* Encephalon.sensory_neurons: hash -> neuron
    sensory_interfaces,  \* Encephalon.sensory_interfaces: sensor name -> interface
    actuator_interfaces, \* Encephalon.actuator_interfaces: actuator name -> interface
    control_value,       \* last value handed to each actuator
    sensory_order,       \* iteration order of sensory_neurons.values()
    rx_order,            \* iteration order of rx_neurons.values()
    sensory_todo,        \* sensory neurons run_cycle has yet to visit
    rx_todo,             \* receivers run_cycle has yet to visit
    rng_seed,            \* the random generator's draw pattern in this cycle
    panic,               \* "" or the message of the panic that ended the process
    fire_log,            \* history: neuron -> cycle -> fire decision
    sprout_log,          \* history: neuron -> cycle -> whether its step appended a
                         \* plastic synapse
    sent,                \* history: neuron -> parity -> impulses its firing in the
                         \* latest cycle of that parity was to deliver
    call,                \* a direct call of a library function: its name and arguments
    ret,                 \* what that call returned (None until it has)
    chan,                \* server: sensor name -> values queued in its mpsc channel
    cache,               \* server: sensor name -> HttpReqSensor.cache
    sender,              \* server: the request handler inside send_all, or idle
    requests,            \* server: number of requests received
    cycle_loop,          \* server: the order run_cycle measures the sensors in, and
                         \* the sensors the running cycle has yet to measure
    measured,            \* server: sensor name -> what its latest measure() returned
    latest               \* history: sensor name -> the latest value sent on its channel

vars ==
    <<cfg, stage, ecp_geometry, cycle_count, rx_neurons, sensory_neurons,
      sensory_interfaces, actuator_interfaces, control_value, sensory_order,
      rx_order, sensory_todo, rx_todo, rng_seed, panic, fire_log, sprout_log,
      sent, call, ret, chan, cache, sender, requests, cycle_loop, measured, latest>>

server_vars == <<chan, cache, sender, requests, cycle_loop, measured, latest>>

\* the variables the encephalon's own run leaves alone
other_vars == <<call, ret, server_vars>>

NoCall == [fn |-> ""]

EmptyMap == [k \in {} |-> 0]

\* the server's variables while the server is not running
NoServer ==
    /\ chan = EmptyMap
    /\ cache = EmptyMap
    /\ sender = [next |-> 0]
    /\ requests = 0
    /\ cycle_loop = [order |-> <<>>, todo |-> <<>>]
    /\ measured = EmptyMap
    /\ latest = EmptyMap

MapInsert(m, k, v) == [x \in (DOMAIN m) \cup {k} |-> IF x = k THEN v ELSE m[x]]

get_cycle_count(count) == count

get_charge_cycle(count) == IF count % 2 = 0 THEN Even ELSE Odd

\* rand::thread_rng(): the three raw words a caller at `loc` draws under `seed`
thread_rng_words(seed, loc) ==
    IF Len(loc) = 3 /\ loc[3] >= 0
    THEN <<seed + loc[1] + 1, seed + loc[2] + 1, seed + loc[3] + 1>>
    ELSE <<seed, seed, seed>>

(***************************************************************************)
(* neuron.rs: the neurons                                                  *)
(***************************************************************************)
SensoryNeuron_new(loc) ==
    [period |-> 0, plastic_synapses |-> <<>>, static_synapses |-> <<>>,
     fire_tracker |-> FireTracker_new, ema |-> 0, loc |-> loc]

\* An actuator neuron has neither synapses nor a location: the fields stay empty.
ActuatorNeuron_new ==
    [kind |-> "Actuator", internal_charge |-> InternalCharge_new,
     fire_tracker |-> FireTracker_new, ema |-> 0,
     plastic_synapses |-> <<>>, static_synapses |-> <<>>, loc |-> <<>>]

PlasticNeuron_new(loc) ==
    [kind |-> "Plastic", internal_charge |-> InternalCharge_new,
     fire_tracker |-> FireTracker_new, ema |-> 0,
     plastic_synapses |-> <<>>, static_synapses |-> <<>>, loc |-> loc]

fired_on_prev_cycle(neuron, count) ==
    tracker_fired_on_prev_cycle(neuron.fire_tracker, get_charge_cycle(count))

\* variant: asks for the cycle before instead of two cycles before (told apart
\* by C30_HebbianUpdate)
fired_on_prev_prev_one_back(neuron, count) ==
    tracker_fired_on_prev_cycle(neuron.fire_tracker, get_charge_cycle(count))

fired_on_prev_prev(neuron, count) ==
    tracker_fired_on_prev_prev(neuron.fire_tracker, get_charge_cycle(count))

connected(syn) == above_weakness_threshold(syn.strength)

RECURSIVE prune_synapses(_, _, _, _)
prune_synapses(synapses, synapses_fired, rx, count) ==
    IF synapses = <<>> THEN <<>>
    ELSE
    LET syn == Head(synapses)
        upd == IF synapses_fired
               THEN IF fired_on_prev_cycle(rx[syn.target], count)
                    THEN [syn EXCEPT !.strength = strengthen(@)]
                    ELSE [syn EXCEPT !.strength = weaken(@)]
               ELSE syn
        rest == prune_synapses(Tail(synapses), synapses_fired, rx, count)
    IN  IF connected(upd) THEN <<upd>> \o rest ELSE rest

\* Encephalon::local_random_neuron
local_random_neuron(geo, rx, loc, words) ==
    LET h == local_random_hash(geo, loc, words)
    IN  IF h.panic THEN [panic |-> TRUE, neuron |-> None]
        ELSE IF h.hash.some /\ h.hash.val \in DOMAIN rx
        THEN [panic |-> FALSE, neuron |-> Some(h.hash.val)]
        ELSE [panic |-> FALSE, neuron |-> None]

\* variant: a full list still has room (told apart by C4_PlasticCap)
has_room_at_cap(plastic_synapses, max_plastic_synapses) ==
    Len(plastic_synapses) <= max_plastic_synapses

\* plastic_synapses.len() < self.max_plastic_synapses
has_room(plastic_synapses, max_plastic_synapses) ==
    Len(plastic_synapses) < max_plastic_synapses

\* variant: the new synapse takes over the strength of the list's latest synapse
\* instead of one from the generator (told apart by C32_SproutOncePerCycle)
form_plastic_synapse_shared_strength(plastic_synapses, ema, loc, p, geo, rx, words) ==
    IF has_room(plastic_synapses, p.max_plastic_synapses)
    THEN LET new_target_neuron == local_random_neuron(geo, rx, loc, words)
             synapse_type == IF ema < p.synapse_type_threshold
                             THEN Excitatory ELSE Inhibitory
         IN  IF new_target_neuron.panic
             THEN [panic |-> TRUE, plastic_synapses |-> plastic_synapses]
             ELSE IF new_target_neuron.neuron.some
             THEN [panic |-> FALSE,
                   plastic_synapses |->
                       Append(plastic_synapses,
                              PlasticSynapse_new(
                                  IF plastic_synapses = <<>>
                                  THEN EmStrength_new(p.strength_max_value,
                                                      p.strength_weakness_threshold,
                                                      p.strength_alpha)
                                  ELSE plastic_synapses[Len(plastic_synapses)].strength,
                                  synapse_type, new_target_neuron.neuron.val))]
             ELSE [panic |-> FALSE, plastic_synapses |-> plastic_synapses]
    ELSE [panic |-> FALSE, plastic_synapses |-> plastic_synapses]

\* variant: an EMA equal to the threshold still gives an excitatory synapse
\* (told apart by C31_SproutedPolarity)
form_plastic_synapse_at_threshold(plastic_synapses, ema, loc, p, geo, rx, words) ==
    IF has_room(plastic_synapses, p.max_plastic_synapses)
    THEN LET new_target_neuron == local_random_neuron(geo, rx, loc, words)
             synapse_type == IF ema <= p.synapse_type_threshold
                             THEN Excitatory ELSE Inhibitory
         IN  IF new_target_neuron.panic
             THEN [panic |-> TRUE, plastic_synapses |-> plastic_synapses]
             ELSE IF new_target_neuron.neuron.some
             THEN [panic |-> FALSE,
                   plastic_synapses |->
                       Append(plastic_synapses,
                              PlasticSynapse_new(
                                  EmStrength_new(p.strength_max_value,
                                                 p.strength_weakness_threshold,
                                                 p.strength_alpha),
                                  synapse_type, new_target_neuron.neuron.val))]
             ELSE [panic |-> FALSE, plastic_synapses |-> plastic_synapses]
    ELSE [panic |-> FALSE, plastic_synapses |-> plastic_synapses]

form_plastic_synapse(plastic_synapses, ema, loc, p, geo, rx, words) ==
    IF has_room(plastic_synapses, p.max_plastic_synapses)
    THEN LET new_target_neuron == local_random_neuron(geo, rx, loc, words)
             synapse_type == IF ema < p.synapse_type_threshold
                             THEN Excitatory ELSE Inhibitory
         IN  IF new_target_neuron.panic
             THEN [panic |-> TRUE, plastic_synapses |-> plastic_synapses]
             ELSE IF new_target_neuron.neuron.some
             THEN [panic |-> FALSE,
                   plastic_synapses |->
                       Append(plastic_synapses,
                              PlasticSynapse_new(
                                  EmStrength_new(p.strength_max_value,
                                                 p.strength_weakness_threshold,
                                                 p.strength_alpha),
                                  synapse_type, new_target_neuron.neuron.val))]
             ELSE [panic |-> FALSE, plastic_synapses |-> plastic_synapses]
    ELSE [panic |-> FALSE, plastic_synapses |-> plastic_synapses]

\* The impulses fire_synapses delivers: plastic synapses first, then static
impulses_of(plastic_synapses, static_synapses) ==
    [i \in 1..Len(plastic_synapses) |->
        [target |-> plastic_synapses[i].target,
         impulse |-> plastic_impulse(plastic_synapses[i])]]
    \o
    [i \in 1..Len(static_synapses) |->
        [target |-> static_synapses[i].target,
         impulse |-> static_impulse(static_synapses[i])]]

\* RxNeuronic::intake_synaptic_impulse on the target.  `borrowed` is the
\* receiver whose internal_charge RefCell is mutably borrowed by the run_cycle
\* in progress ("" when a sensory neuron fires): borrow_mut on it panics.
intake_synaptic_impulse(rx, target, impulse, count, borrowed) ==
    IF target = borrowed
    THEN [panic |-> TRUE, rx |-> rx]
    ELSE [panic |-> FALSE,
          rx |-> [rx EXCEPT ![target].internal_charge =
                     incr_next_charge(@, get_charge_cycle(count), impulse)]]

RECURSIVE fire_synapses(_, _, _, _)
fire_synapses(rx, impulses, count, borrowed) ==
    IF impulses = <<>> THEN [panic |-> FALSE, rx |-> rx]
    ELSE
    LET r == intake_synaptic_impulse(rx, Head(impulses).target,
                                     Head(impulses).impulse, count, borrowed)
    IN  IF r.panic THEN r
        ELSE fire_synapses(r.rx, Tail(impulses), count, borrowed)

\* The fire decisions of the run_cycle bodies
\* variant: the cycle count is not looked at (told apart by C18_SensoryFireRule)
sensory_fires_any_cycle(n, count) == n.period # 0

sensory_fires(n, count) ==
    n.period # 0 /\ get_cycle_count(count) % n.period = 0

\* variant: a charge equal to the threshold fires (told apart by C19_RxFireRule)
rx_fires_at_threshold(n, fire_threshold, count) ==
    get_charge(n.internal_charge, get_charge_cycle(count)) >= fire_threshold

rx_fires(n, fire_threshold, count) ==
    get_charge(n.internal_charge, get_charge_cycle(count)) > fire_threshold

\* The neurons of the encephalon as the neuron steps see them.  x is the
\* context of a step: x.p the construction parameters, x.geo the geometry,
\* x.count the cycle counter, x.seed the generator's draw pattern.
\* e.due holds the impulses the step's fire_synapses call was to deliver (none
\* when the neuron did not fire).  A step that panics leaves what it had
\* written before the panic.
Net(rx, sn) == [rx |-> rx, sn |-> sn, panicked |-> FALSE, due |-> <<>>]

Panicked(e) == [e EXCEPT !.panicked = TRUE]

SensoryNeuron_run_cycle(e, key, x) ==
    LET n == e.sn[key]
        current_cycle == get_charge_cycle(x.count)
        pruned == prune_synapses(n.plastic_synapses,
                                 fired_on_prev_prev(n, x.count), e.rx, x.count)
        formed == form_plastic_synapse(pruned, n.ema, n.loc, x.p, x.geo, e.rx,
                                       thread_rng_words(x.seed, n.loc))
        fires == sensory_fires(n, x.count)
        impulses == impulses_of(formed.plastic_synapses, n.static_synapses)
        fired == fire_synapses(e.rx, impulses, x.count, "")
    IN  IF formed.panic
        THEN Panicked([e EXCEPT !.sn[key].plastic_synapses = pruned])
        ELSE IF fires
        THEN IF fired.panic
             THEN Panicked([e EXCEPT
                              !.due = impulses,
                              !.rx = fired.rx,
                              !.sn[key].plastic_synapses = formed.plastic_synapses])
             ELSE [e EXCEPT
                     !.due = impulses,
                     !.rx = fired.rx,
                     !.sn[key] =
                        [n EXCEPT !.plastic_synapses = formed.plastic_synapses,
                                  !.ema = ema_fired(x.p.ema_alpha, n.ema),
                                  !.fire_tracker = set_tracker(@, current_cycle, TRUE)]]
        ELSE [e EXCEPT
                !.sn[key] =
                   [n EXCEPT !.plastic_synapses = formed.plastic_synapses,
                             !.ema = ema_not_fired(x.p.ema_alpha, n.ema),
                             !.fire_tracker = set_tracker(@, current_cycle, FALSE)]]

ActuatorNeuron_run_cycle(e, key, x) ==
    LET n == e.rx[key]
        current_cycle == get_charge_cycle(x.count)
    IN  IF rx_fires(n, x.p.fire_threshold, x.count)
        THEN [e EXCEPT
                !.rx[key] =
                   [n EXCEPT !.ema = ema_fired(x.p.ema_alpha, n.ema),
                             !.fire_tracker = set_tracker(@, current_cycle, TRUE),
                             !.internal_charge = reset_charge(@, current_cycle)]]
        ELSE [e EXCEPT
                !.rx[key] =
                   [n EXCEPT !.ema = ema_not_fired(x.p.ema_alpha, n.ema),
                             !.fire_tracker = set_tracker(@, current_cycle, FALSE),
                             !.internal_charge = reset_charge(@, current_cycle)]]

PlasticNeuron_run_cycle(e, key, x) ==
    LET n == e.rx[key]
        current_cycle == get_charge_cycle(x.count)
        pruned == prune_synapses(n.plastic_synapses,
                                 fired_on_prev_prev(n, x.count), e.rx, x.count)
        formed == form_plastic_synapse(pruned, n.ema, n.loc, x.p, x.geo, e.rx,
                                       thread_rng_words(x.seed, n.loc))
        fires == rx_fires(n, x.p.fire_threshold, x.count)
        impulses == impulses_of(formed.plastic_synapses, n.static_synapses)
        \* internal_charge stays mutably borrowed while the synapses fire
        fired == fire_synapses(e.rx, impulses, x.count, key)
    IN  IF formed.panic
        THEN Panicked([e EXCEPT !.rx[key].plastic_synapses = pruned])
        ELSE IF fires
        THEN IF fired.panic
             THEN Panicked([e EXCEPT
                              !.due = impulses,
                              !.rx = [fired.rx EXCEPT
                                        ![key].plastic_synapses =
                                            formed.plastic_synapses]])
             ELSE [e EXCEPT
                     !.due = impulses,
                     !.rx = [fired.rx EXCEPT
                               ![key] =
                                  [@ EXCEPT
                                     !.plastic_synapses = formed.plastic_synapses,
                                     !.ema = ema_fired(x.p.ema_alpha, n.ema),
                                     !.fire_tracker = set_tracker(@, current_cycle, TRUE),
                                     !.internal_charge = reset_charge(@, current_cycle)]]]
        ELSE [e EXCEPT
                !.rx[key] =
                   [n EXCEPT !.plastic_synapses = formed.plastic_synapses,
                             !.ema = ema_not_fired(x.p.ema_alpha, n.ema),
                             !.fire_tracker = set_tracker(@, current_cycle, FALSE),
                             !.internal_charge = reset_charge(@, current_cycle)]]

\* variant: a plastic neuron pushes the synapse it sprouts on its static list as
\* well (told apart by C25_StaticSynapsesFixed)
RxNeuron_run_cycle_static_sprout(e, key, x) ==
    IF e.rx[key].kind = "Actuator"
    THEN ActuatorNeuron_run_cycle(e, key, x)
    ELSE LET r == PlasticNeuron_run_cycle(e, key, x)
             new == r.rx[key].plastic_synapses
             sprouted == new[Len(new)]
         IN  IF new # <<>> /\ sprouted \notin
                                {e.rx[key].plastic_synapses[i] :
                                    i \in 1..Len(e.rx[key].plastic_synapses)}
             THEN [r EXCEPT !.rx[key].static_synapses =
                      Append(@, StaticSynapse_new(get_strength(sprouted.strength),
                                                  sprouted.synaptic_type,
                                                  sprouted.target))]
             ELSE r

\* dyn NeuronicRx::run_cycle
RxNeuron_run_cycle(e, key, x) ==
    IF e.rx[key].kind = "Actuator"
    THEN ActuatorNeuron_run_cycle(e, key, x)
    ELSE PlasticNeuron_run_cycle(e, key, x)

\* The two neuron loops of Encephalon::run_cycle over the given visit orders
RECURSIVE run_sensory_neurons(_, _, _)
run_sensory_neurons(e, order, x) ==
    IF order = <<>> \/ e.panicked THEN e
    ELSE run_sensory_neurons(SensoryNeuron_run_cycle([e EXCEPT !.due = <<>>], Head(order), x),
                             Tail(order), x)

RECURSIVE run_rx_neurons(_, _, _)
run_rx_neurons(e, order, x) ==
    IF order = <<>> \/ e.panicked THEN e
    ELSE run_rx_neurons(RxNeuron_run_cycle([e EXCEPT !.due = <<>>], Head(order), x),
                        Tail(order), x)

(***************************************************************************)
(* encephalon.rs: Encephalon::new                                          *)
(***************************************************************************)
\* variant: the element at the front of the list (told apart by C13_SensorPairing)
First(q) == q[1]

Last(q) == q[Len(q)]
Front(q) == SubSeq(q, 1, Len(q) - 1)

\* the loop over first_rx_loc / next_rx_loc; keys records the insertion order
RECURSIVE populate_rx(_, _, _)
populate_rx(geo, opt, acc) ==
    IF ~opt.some THEN acc
    ELSE
    LET c == opt.val
        keys == IF c.hash \in DOMAIN acc.rx THEN acc.keys ELSE Append(acc.keys, c.hash)
        step ==
            IF c.kind = "Actuator"
            THEN [rx |-> MapInsert(acc.rx, c.hash, ActuatorNeuron_new),
                  keys |-> keys,
                  actuators |-> IF acc.actuators = <<>> THEN <<>> ELSE Front(acc.actuators),
                  actuator_interfaces |->
                      IF acc.actuators = <<>> THEN acc.actuator_interfaces
                      ELSE MapInsert(acc.actuator_interfaces, Last(acc.actuators),
                                     [actuator_neuron |-> c.hash,
                                      actuator |-> Last(acc.actuators)])]
            ELSE [acc EXCEPT !.rx = MapInsert(@, c.hash, PlasticNeuron_new(c.loc)),
                             !.keys = keys]
    IN  populate_rx(geo, next_rx_loc(geo, c.loc), step)

\* the loop over first_sensory_loc / next_sensory_loc
RECURSIVE populate_sensory(_, _, _, _)
populate_sensory(geo, opt, encoder_y_int, acc) ==
    IF ~opt.some THEN acc
    ELSE
    LET c == opt.val
        keys == IF c.hash \in DOMAIN acc.sn THEN acc.keys ELSE Append(acc.keys, c.hash)
        step ==
            [sn |-> MapInsert(acc.sn, c.hash, SensoryNeuron_new(c.loc)),
             keys |-> keys,
             sensors |-> IF acc.sensors = <<>> THEN <<>> ELSE Front(acc.sensors),
             sensory_interfaces |->
                 IF acc.sensors = <<>> THEN acc.sensory_interfaces
                 ELSE MapInsert(acc.sensory_interfaces, Last(acc.sensors).name,
                                [sensor |-> Last(acc.sensors),
                                 encoder_y_int |-> encoder_y_int,
                                 sensory_neuron |-> c.hash])]
    IN  populate_sensory(geo, next_sensory_loc(geo, c.loc), encoder_y_int, step)

RECURSIVE form_reflex_synapses(_, _, _, _)
form_reflex_synapses(reflexes, si, ai, sn) ==
    IF reflexes = <<>> THEN sn
    ELSE
    LET reflex == Head(reflexes)
        added ==
            IF reflex.sensor_name \in DOMAIN si /\ reflex.actuator_name \in DOMAIN ai
            THEN [sn EXCEPT ![si[reflex.sensor_name].sensory_neuron].static_synapses =
                     Append(@, StaticSynapse_new(reflex.strength, reflex.synapse_type,
                                                 ai[reflex.actuator_name].actuator_neuron))]
            ELSE sn
    IN  form_reflex_synapses(Tail(reflexes), si, ai, added)

\* variant: only the sensors are counted (told apart by C9_CountMismatchAborts)
check_counts_sensors_only(geo, p) ==
    IF geo.num_sensory # Len(p.sensors)
    THEN "sensors do not match geometry"
    ELSE ""

\* The two count checks that open Encephalon::new; "" when both counts match
check_counts(geo, p) ==
    IF geo.num_sensory # Len(p.sensors)
    THEN "sensors do not match geometry"
    ELSE IF geo.num_actuator # Len(p.actuators)
    THEN "actuators do not match geometry"
    ELSE ""

\* panic = "" when the encephalon is returned
Encephalon_new(geo, p) ==
    LET failed(msg) ==
            [panic |-> msg, rx |-> EmptyMap, sn |-> EmptyMap, rx_keys |-> <<>>,
             sn_keys |-> <<>>, sensory_interfaces |-> EmptyMap,
             actuator_interfaces |-> EmptyMap]
        rxs == populate_rx(geo, Some(first_rx_loc),
                           [rx |-> EmptyMap, keys |-> <<>>, actuators |-> p.actuators,
                            actuator_interfaces |-> EmptyMap])
        sns == populate_sensory(geo, Some(first_sensory_loc), p.encoder_y_int,
                                [sn |-> EmptyMap, keys |-> <<>>, sensors |-> p.sensors,
                                 sensory_interfaces |-> EmptyMap])
    IN  IF check_counts(geo, p) # ""
        THEN failed(check_counts(geo, p))
        ELSE [panic |-> "", rx |-> rxs.rx,
              sn |-> form_reflex_synapses(p.reflexes, sns.sensory_interfaces,
                                          rxs.actuator_interfaces, sns.sn),
              rx_keys |-> rxs.keys, sn_keys |-> sns.keys,
              sensory_interfaces |-> sns.sensory_interfaces,
              actuator_interfaces |-> rxs.actuator_interfaces]

(***************************************************************************)
(* The caller: arguments explored                                          *)
(***************************************************************************)
DesiredPlastic == {1, 8, 27}
NumSensory == {0, 1, 2}
NumActuator == {0, 1, 5}
NearbyCount == {0, 1, 27}
PlasticCaps == {0, 2}
RngSeeds == {0, 1}
IterationOrders == {"insertion", "reverse"}

\* A sensor measuring a constant value, as main.rs's ConstantSensor does
ConstantSensor(name, value) == [name |-> name, value |-> value]

SensorLists ==
    {<<>>, <<ConstantSensor("s1", 0)>>, <<ConstantSensor("s1", One)>>,
     <<ConstantSensor("s1", One), ConstantSensor("s2", 0)>>}

ActuatorLists == {<<>>, <<"a1">>}

Reflex_new(sensor_name, actuator_name, synapse_type, strength) ==
    [sensor_name |-> sensor_name, actuator_name |-> actuator_name,
     synapse_type |-> synapse_type, strength |-> strength]

\* one reflex between the supplied names and one naming an unknown sensor
Reflexes ==
    <<Reflex_new("s1", "a1", Excitatory, 20 * One),
      Reflex_new("s9", "a1", Inhibitory, 20 * One)>>

GridConfigs ==
    [desired_num_plastic : DesiredPlastic,
     num_sensory : NumSensory,
     num_actuator : NumActuator,
     nearby_count : NearbyCount,
     sensors : SensorLists,
     actuators : ActuatorLists,
     fire_threshold : {6 * One},
     ema_alpha : {One \div 4, One \div 2},
     synapse_type_threshold : {One \div 2},
     max_plastic_synapses : PlasticCaps,
     strength_max_value : {16 * One},
     strength_weakness_threshold : {4 * One},
     strength_alpha : {One \div 2},
     encoder_y_int : {2 * One},
     reflexes : {Reflexes}]

\* no sensors, one actuator, no reflexes, nearby side 1
SilentNetworkConfigs ==
    [desired_num_plastic : {8},
     num_sensory : {0},
     num_actuator : {1},
     nearby_count : {1},
     sensors : {<<>>},
     actuators : {<<"a1">>},
     fire_threshold : {6 * One},
     ema_alpha : {One \div 4, One \div 2},
     synapse_type_threshold : {One \div 2},
     max_plastic_synapses : PlasticCaps,
     strength_max_value : {16 * One},
     strength_weakness_threshold : {4 * One},
     strength_alpha : {One \div 2},
     encoder_y_int : {2 * One},
     reflexes : {<<>>}]

\* a fire threshold equal to the impulse of a fresh synapse
ThresholdConfigs ==
    [desired_num_plastic : {27},
     num_sensory : {1},
     num_actuator : {0},
     nearby_count : {27},
     sensors : {<<ConstantSensor("s1", One)>>},
     actuators : {<<>>},
     fire_threshold : {8 * One},
     ema_alpha : {One \div 4, One \div 2},
     synapse_type_threshold : {One \div 2},
     max_plastic_synapses : {2},
     strength_max_value : {16 * One},
     strength_weakness_threshold : {4 * One},
     strength_alpha : {One \div 2},
     encoder_y_int : {2 * One},
     reflexes : {Reflexes}]

\* no sensors and a fire threshold of 0: nothing ever fires, synapses sprout
QuiescenceConfigs ==
    [desired_num_plastic : {27},
     num_sensory : {0},
     num_actuator : {0},
     nearby_count : {27},
     sensors : {<<>>},
     actuators : {<<>>},
     fire_threshold : {0},
     ema_alpha : {One \div 4, One \div 2},
     synapse_type_threshold : {One \div 2},
     max_plastic_synapses : {2},
     strength_max_value : {16 * One},
     strength_weakness_threshold : {4 * One},
     strength_alpha : {One \div 2},
     encoder_y_int : {2 * One},
     reflexes : {<<>>}]

Configs ==
    GridConfigs \cup SilentNetworkConfigs \cup ThresholdConfigs
        \cup QuiescenceConfigs

IterationOrder(keys, ord) == IF ord = "insertion" THEN keys ELSE Reverse(keys)

Ctx == [p |-> cfg, geo |-> ecp_geometry, count |-> cycle_count, seed |-> rng_seed]

Neurons == (DOMAIN rx_neurons) \cup (DOMAIN sensory_neurons)

(***************************************************************************)
(* Init and the actions                                                    *)
(***************************************************************************)
Init ==
    /\ cfg \in Configs
    /\ stage = "box_ecp_new"
    /\ ecp_geometry = NoGeometry
    /\ cycle_count = 0
    /\ rx_neurons = EmptyMap
    /\ sensory_neurons = EmptyMap
    /\ sensory_interfaces = EmptyMap
    /\ actuator_interfaces = EmptyMap
    /\ control_value = EmptyMap
    /\ sensory_order = <<>>
    /\ rx_order = <<>>
    /\ sensory_todo = <<>>
    /\ rx_todo = <<>>
    /\ rng_seed = 0
    /\ panic = ""
    /\ fire_log = EmptyMap
    /\ sprout_log = EmptyMap
    /\ sent = EmptyMap
    /\ call = NoCall
    /\ ret = None
    /\ NoServer

\* The caller builds the geometry: BoxEcp::new
BoxEcpNew ==
    /\ stage = "box_ecp_new"
    /\ LET r == BoxEcp_new(cfg.desired_num_plastic, cfg.num_sensory,
                           cfg.num_actuator, cfg.nearby_count)
       IN  /\ ecp_geometry' = r.geo
           /\ panic' = r.panic
           /\ stage' = IF r.panic = "" THEN "encephalon_new" ELSE "aborted"
    /\ UNCHANGED <<cfg, cycle_count, rx_neurons, sensory_neurons, sensory_interfaces,
                   actuator_interfaces, control_value, sensory_order, rx_order,
                   sensory_todo, rx_todo, rng_seed, fire_log,
                   sprout_log, sent>>
    /\ UNCHANGED other_vars

\* The caller builds the encephalon: Encephalon::new
EncephalonNew ==
    /\ stage = "encephalon_new"
    /\ \E ord \in IterationOrders :
         LET r == Encephalon_new(ecp_geometry, cfg)
         IN  /\ panic' = r.panic
             /\ stage' = IF r.panic = "" THEN "idle" ELSE "aborted"
             /\ rx_neurons' = r.rx
             /\ sensory_neurons' = r.sn
             /\ sensory_interfaces' = r.sensory_interfaces
             /\ actuator_interfaces' = r.actuator_interfaces
             /\ sensory_order' = IterationOrder(r.sn_keys, ord)
             /\ rx_order' = IterationOrder(r.rx_keys, ord)
             /\ fire_log' = [k \in (DOMAIN r.rx) \cup (DOMAIN r.sn) |-> <<>>]
             /\ sprout_log' = [k \in (DOMAIN r.rx) \cup (DOMAIN r.sn) |-> <<>>]
             /\ sent' = [k \in (DOMAIN r.rx) \cup (DOMAIN r.sn) |->
                            [c0 |-> <<>>, c1 |-> <<>>]]
    /\ UNCHANGED <<cfg, ecp_geometry, cycle_count, control_value, sensory_todo,
                   rx_todo, rng_seed>>
    /\ UNCHANGED other_vars

\* Encephalon::run_cycle, first statement: uptick_cycle_count
UptickCycleCount ==
    /\ stage = "idle"
    /\ cycle_count < MaxCycles
    /\ cycle_count' = cycle_count + 1
    /\ rng_seed' \in RngSeeds
    /\ stage' = "sensory_interfaces"
    /\ sent' = [k \in DOMAIN sent |->
                   IF get_charge_cycle(cycle_count + 1) = Even
                   THEN [sent[k] EXCEPT !.c0 = <<>>]
                   ELSE [sent[k] EXCEPT !.c1 = <<>>]]
    /\ UNCHANGED <<cfg, ecp_geometry, rx_neurons, sensory_neurons, sensory_interfaces,
                   actuator_interfaces, control_value, sensory_order, rx_order,
                   sensory_todo, rx_todo, panic, fire_log, sprout_log>>
    /\ UNCHANGED other_vars

RECURSIVE run_sensory_interfaces(_, _, _)
run_sensory_interfaces(names, si, sn) ==
    IF names = {} THEN sn
    ELSE LET name == CHOOSE n \in names : TRUE
         IN  run_sensory_interfaces(names \ {name}, si,
                                    SensoryInterface_run_cycle(si[name], sn))

\* Encephalon::run_cycle, the loop over the sensory interfaces
RunSensoryInterfaces ==
    /\ stage = "sensory_interfaces"
    /\ sensory_neurons' =
          run_sensory_interfaces(DOMAIN sensory_interfaces, sensory_interfaces,
                                 sensory_neurons)
    /\ stage' = "actuator_interfaces"
    /\ UNCHANGED <<cfg, ecp_geometry, cycle_count, rx_neurons, sensory_interfaces,
                   actuator_interfaces, control_value, sensory_order, rx_order,
                   sensory_todo, rx_todo, rng_seed, panic, fire_log,
                   sprout_log, sent>>
    /\ UNCHANGED other_vars

\* variant: the receiver loop is entered while sensory neurons are still to be
\* visited (told apart by C21_CycleDriverOrder)
AfterSensoryLoop_early(todo) ==
    IF rx_order # <<>> THEN "rx_neurons" ELSE "idle"

AfterSensoryLoop(todo) ==
    IF todo # <<>> THEN "sensory_neurons"
    ELSE IF rx_order # <<>> THEN "rx_neurons" ELSE "idle"

\* Encephalon::run_cycle, the loop over the actuator interfaces
RunActuatorInterfaces ==
    /\ stage = "actuator_interfaces"
    /\ control_value' =
          [name \in DOMAIN actuator_interfaces |->
              ActuatorInterface_run_cycle(actuator_interfaces[name], rx_neurons)]
    /\ sensory_todo' = sensory_order
    /\ rx_todo' = rx_order
    /\ stage' = AfterSensoryLoop(sensory_order)
    /\ UNCHANGED <<cfg, ecp_geometry, cycle_count, rx_neurons, sensory_neurons,
                   sensory_interfaces, actuator_interfaces, sensory_order, rx_order,
                   rng_seed, panic, fire_log,
                   sprout_log, sent>>
    /\ UNCHANGED other_vars

RecordFired(key, fired) == fire_log' = [fire_log EXCEPT ![key] = Append(@, fired)]

\* whether the step that took the neuron from `before` to `after` appended a
\* synapse to the list it had pruned
RecordSprouted(key, before, after) ==
    sprout_log' =
        [sprout_log EXCEPT ![key] =
            Append(@, Len(after.plastic_synapses) >
                      Len(prune_synapses(before.plastic_synapses,
                                         fired_on_prev_prev(before, cycle_count),
                                         rx_neurons, cycle_count)))]

RecordSent(key, impulses) ==
    sent' = [sent EXCEPT ![key] =
                IF get_charge_cycle(cycle_count) = Even
                THEN [@ EXCEPT !.c0 = impulses]
                ELSE [@ EXCEPT !.c1 = impulses]]

\* Encephalon::run_cycle, one iteration of the loop over the sensory neurons
SensoryNeuronStep ==
    /\ stage = "sensory_neurons"
    /\ sensory_todo # <<>>
    /\ \E e \in {SensoryNeuron_run_cycle(Net(rx_neurons, sensory_neurons),
                                         Head(sensory_todo), Ctx)} :
       LET key == Head(sensory_todo)
           fired == sensory_fires(sensory_neurons[key], cycle_count)
       IN  IF e.panicked
           THEN /\ stage' = "aborted"
                /\ panic' = "run_cycle"
                /\ rx_neurons' = e.rx
                /\ sensory_neurons' = e.sn
                /\ RecordSent(key, e.due)
                /\ UNCHANGED <<sensory_todo, fire_log, sprout_log>>
           ELSE /\ rx_neurons' = e.rx
                /\ sensory_neurons' = e.sn
                /\ sensory_todo' = Tail(sensory_todo)
                /\ stage' = AfterSensoryLoop(Tail(sensory_todo))
                /\ RecordFired(key, fired)
                /\ RecordSprouted(key, sensory_neurons[key], e.sn[key])
                /\ RecordSent(key, e.due)
                /\ UNCHANGED panic
    /\ UNCHANGED <<cfg, ecp_geometry, cycle_count, sensory_interfaces,
                   actuator_interfaces, control_value, sensory_order, rx_order,
                   rx_todo, rng_seed>>
    /\ UNCHANGED other_vars

\* Encephalon::run_cycle, one iteration of the loop over the receivers
RxNeuronStep ==
    /\ stage = "rx_neurons"
    /\ rx_todo # <<>>
    /\ \E e \in {RxNeuron_run_cycle(Net(rx_neurons, sensory_neurons),
                                    Head(rx_todo), Ctx)} :
       LET key == Head(rx_todo)
           fired == rx_fires(rx_neurons[key], cfg.fire_threshold, cycle_count)
       IN  IF e.panicked
           THEN /\ stage' = "aborted"
                /\ panic' = "run_cycle"
                /\ rx_neurons' = e.rx
                /\ sensory_neurons' = e.sn
                /\ RecordSent(key, e.due)
                /\ UNCHANGED <<rx_todo, fire_log, sprout_log>>
           ELSE /\ rx_neurons' = e.rx
                /\ sensory_neurons' = e.sn
                /\ rx_todo' = Tail(rx_todo)
                /\ stage' = IF Tail(rx_todo) = <<>> THEN "idle" ELSE "rx_neurons"
                /\ RecordFired(key, fired)
                /\ RecordSprouted(key, rx_neurons[key], e.rx[key])
                /\ RecordSent(key, e.due)
                /\ UNCHANGED panic
    /\ UNCHANGED <<cfg, ecp_geometry, cycle_count, sensory_interfaces,
                   actuator_interfaces, control_value, sensory_order, rx_order,
                   sensory_todo, rng_seed>>
    /\ UNCHANGED other_vars

Next ==
    \/ BoxEcpNew
    \/ EncephalonNew
    \/ UptickCycleCount
    \/ RunSensoryInterfaces
    \/ RunActuatorInterfaces
    \/ SensoryNeuronStep
    \/ RxNeuronStep

Spec == Init /\ [][Next]_vars

(***************************************************************************)
(* The library called directly: one call per behaviour, on arguments drawn *)
(* in the initial state                                                    *)
(***************************************************************************)
\* largest raw word the random generator is let to draw in a direct call
MaxWord == 2

RngWords == {<<a, b, c>> : a \in 0..MaxWord, b \in 0..MaxWord, c \in 0..MaxWord}

\* the encephalon's variables while its own run is not what is exercised
NoEncephalon ==
    /\ cfg = <<>>
    /\ stage = "library"
    /\ ecp_geometry = NoGeometry
    /\ cycle_count = 0
    /\ rx_neurons = EmptyMap
    /\ sensory_neurons = EmptyMap
    /\ sensory_interfaces = EmptyMap
    /\ actuator_interfaces = EmptyMap
    /\ control_value = EmptyMap
    /\ sensory_order = <<>>
    /\ rx_order = <<>>
    /\ sensory_todo = <<>>
    /\ rx_todo = <<>>
    /\ rng_seed = 0
    /\ panic = ""
    /\ fire_log = EmptyMap
    /\ sprout_log = EmptyMap
    /\ sent = EmptyMap

ecp_vars ==
    <<cfg, stage, ecp_geometry, cycle_count, rx_neurons, sensory_neurons,
      sensory_interfaces, actuator_interfaces, control_value, sensory_order,
      rx_order, sensory_todo, rx_todo, rng_seed, panic, fire_log,
                   sprout_log, sent>>

\* Encephalon::local_random_neuron(loc) on an encephalon over
\* BoxEcp::new(desired_num_plastic, 0, 0, nearby_count), for every location of
\* the lattice and of the sensory plane
LocalityCalls ==
    {c \in [fn : {"local_random_neuron"},
            desired_num_plastic : {1, 8, 27},
            nearby_count : {1, 27},
            loc : {<<x, y, z>> : x \in 0..2, y \in 0..2, z \in -1..2}] :
        \E g \in {BoxEcp_new(c.desired_num_plastic, 0, 0, c.nearby_count)} :
            /\ g.panic = ""
            /\ \A i \in 1..3 : c.loc[i] <= g.geo.side_length - 1}

\* the geometry and the receiver index the call runs on
CalledGeometry == BoxEcp_new(call.desired_num_plastic, 0, 0, call.nearby_count).geo

CalledReceivers ==
    populate_rx(CalledGeometry, Some(first_rx_loc),
                [rx |-> EmptyMap, keys |-> <<>>, actuators |-> <<>>,
                 actuator_interfaces |-> EmptyMap]).rx

\* a call of local_random_neuron; a panic inside it is recorded in the result
LocalRandomNeuron ==
    /\ call.fn = "local_random_neuron"
    /\ ~ret.some
    /\ \E geo \in {CalledGeometry} : \E rx \in {CalledReceivers} :
       \E words \in RngWords :
          ret' = Some(local_random_neuron(geo, rx, call.loc, words))
    /\ UNCHANGED <<call, ecp_vars, server_vars>>

\* sensory_encoders::encode_sensory_input(input, encoder)
EncoderCalls ==
    [fn : {"encode_sensory_input"},
     encoder : {EMA(One \div 4), EMA(One \div 2), Linear(2 * One),
                Linear(100 * One), Inverse},
     input : {0, One \div 4, One \div 2, 3 * (One \div 4), One}]

EncodeSensoryInput ==
    /\ call.fn = "encode_sensory_input"
    /\ ~ret.some
    /\ ret' = Some(encode_sensory_input(call.input, call.encoder))
    /\ UNCHANGED <<call, ecp_vars, server_vars>>

\* number of strengthen and weaken calls made on one strength
MaxCalls == 4

\* a SigmoidStrength or an EmStrength from its constructor new(max_value,
\* weakness_threshold, growth); the server's is SigmoidStrength::new(9., 1., 0.1)
StrengthCalls ==
    [fn : {"SynapticStrength"},
     strength_type : {"SigmoidStrength", "EmStrength"},
     max_value : {One, 9 * One},
     weakness_threshold : {One},
     growth : {One \div 10, One \div 2, Ln2, 3 * (One \div 4)}]

\* the constructor; the result holds the strength and the calls made on it
SynapticStrengthNew ==
    /\ call.fn = "SynapticStrength"
    /\ ~ret.some
    /\ ret' = Some([strength |->
                       IF call.strength_type = "SigmoidStrength"
                       THEN SigmoidStrength_new(call.max_value,
                                call.weakness_threshold, call.growth)
                       ELSE EmStrength_new(call.max_value,
                                call.weakness_threshold, call.growth),
                    calls |-> <<>>])
    /\ UNCHANGED <<call, ecp_vars, server_vars>>

Strengthen ==
    /\ call.fn = "SynapticStrength"
    /\ ret.some
    /\ Len(ret.val.calls) < MaxCalls
    /\ ret' = Some([strength |-> dyn_strengthen(ret.val.strength),
                    calls |-> Append(ret.val.calls, "strengthen")])
    /\ UNCHANGED <<call, ecp_vars, server_vars>>

Weaken ==
    /\ call.fn = "SynapticStrength"
    /\ ret.some
    /\ Len(ret.val.calls) < MaxCalls
    /\ ret' = Some([strength |-> dyn_weaken(ret.val.strength),
                    calls |-> Append(ret.val.calls, "weaken")])
    /\ UNCHANGED <<call, ecp_vars, server_vars>>

\* a u64 as its four 16-bit limbs, most significant first
LimbBits == 16

LimbBase == 2 ^ LimbBits

\* the remainder of a u64 by m, limb by limb (m below 2^15)
u64_rem(c, m) ==
    LET r1 == c[1] % m
        r2 == (r1 * LimbBase + c[2]) % m
        r3 == (r2 * LimbBase + c[3]) % m
    IN  (r3 * LimbBase + c[4]) % m

\* the cast `as u32` keeps the low 32 bits
as_u32(c) == <<0, 0, c[3], c[4]>>

\* Encephalon::get_cycle_count and get_charge_cycle on the whole u64 range of
\* the counter (get_cycle_count and get_charge_cycle above are their values
\* for a counter below 2^31)
get_cycle_count_u64(count) == as_u32(count)

get_charge_cycle_u64(count) ==
    IF u64_rem(count, 2) = 0 THEN Even ELSE Odd

\* the firing test of SensoryNeuron::run_cycle
sensory_fires_u64(period, count) ==
    period # 0 /\ u64_rem(get_cycle_count_u64(count), period) = 0

\* counters on both sides of 2^16, 2^32 and 2^48, and small periods
FireTestCalls ==
    [fn : {"SensoryNeuron::run_cycle"},
     cycle_count : {0, 1} \X {0, 1} \X {0, 1, LimbBase - 1}
                          \X {0, 1, 2, 3, 4, LimbBase - 1},
     period : {0, 1, 2, 3, 4, 5, 7}]

\* one run_cycle of a sensory neuron with the counter at call.cycle_count:
\* whether it fires, and the charge cycle it uses
SensoryFireTest ==
    /\ call.fn = "SensoryNeuron::run_cycle"
    /\ ~ret.some
    /\ ret' = Some([fires |-> sensory_fires_u64(call.period, call.cycle_count),
                    current_cycle |-> get_charge_cycle_u64(call.cycle_count)])
    /\ UNCHANGED <<call, ecp_vars, server_vars>>

LibraryCalls ==
    LocalityCalls \cup EncoderCalls \cup StrengthCalls \cup FireTestCalls

LibraryInit ==
    /\ NoEncephalon
    /\ call \in LibraryCalls
    /\ ret = None
    /\ NoServer

LibraryNext ==
    \/ LocalRandomNeuron
    \/ EncodeSensoryInput
    \/ SynapticStrengthNew
    \/ Strengthen
    \/ Weaken
    \/ SensoryFireTest

LibrarySpec == LibraryInit /\ [][LibraryNext]_vars

(***************************************************************************)
(* neuron.rs: the life of one plastic synapse under prune_synapses, with   *)
(* a target that stays silent                                              *)
(***************************************************************************)
dyn_above_weakness_threshold(s) ==
    IF IsSigmoid(s) THEN SigmoidStrength_above_weakness_threshold(s)
    ELSE above_weakness_threshold(s)

\* variant: decay leaves the strength alone (told apart by
\* C37_EventuallyPrunedUnlessStalled)
decay_without_weaken(syn) == syn

\* PlasticSynapse::decay and PlasticSynapse::connected on a boxed strength
decay(syn) == [syn EXCEPT !.strength = dyn_weaken(@)]

dyn_connected(syn) == dyn_above_weakness_threshold(syn.strength)

\* the closure of retain in prune_synapses for a target whose
\* fired_on_prev_cycle() is false
RECURSIVE retain_silent_target(_, _)
retain_silent_target(synapses, synapses_fired) ==
    IF synapses = <<>> THEN <<>>
    ELSE
    LET syn == Head(synapses)
        upd == IF synapses_fired THEN decay(syn) ELSE syn
        rest == retain_silent_target(Tail(synapses), synapses_fired)
    IN  IF dyn_connected(upd) THEN <<upd>> \o rest ELSE rest

\* the strength generators an owner can be given; a threshold of 1 is the
\* smallest positive number of the format
PruneCalls ==
    [fn : {"prune_synapses"},
     strength_type : {"SigmoidStrength", "EmStrength"},
     max_value : {One, 9 * One},
     weakness_threshold : {1, One},
     growth : {One \div 10, One \div 2, Ln2, 3 * (One \div 4)}]

NewStrength(c) ==
    IF c.strength_type = "SigmoidStrength"
    THEN SigmoidStrength_new(c.max_value, c.weakness_threshold, c.growth)
    ELSE EmStrength_new(c.max_value, c.weakness_threshold, c.growth)

\* an owner that has just sprouted one synapse, before its next cycle
PruneInit ==
    /\ NoEncephalon
    /\ NoServer
    /\ call \in PruneCalls
    /\ ret = Some([synapses |->
                      <<PlasticSynapse_new(NewStrength(call), Excitatory, "t")>>,
                   fire_tracker |-> FireTracker_new,
                   current_cycle |-> Even])

\* one run_cycle of the owner: prune_synapses, then the firing decision is
\* recorded in the fire tracker; the encephalon then flips the charge cycle
OwnerRunCycle(fires) ==
    /\ call.fn = "prune_synapses"
    /\ ret.some
    /\ ret.val.synapses # <<>>
    /\ ret' = Some([synapses |->
                       retain_silent_target(ret.val.synapses,
                           tracker_fired_on_prev_prev(ret.val.fire_tracker,
                                                      ret.val.current_cycle)),
                    fire_tracker |->
                       set_tracker(ret.val.fire_tracker,
                                   ret.val.current_cycle, fires),
                    current_cycle |-> next_cycle(ret.val.current_cycle)])
    /\ UNCHANGED <<call, ecp_vars, server_vars>>

OwnerFires == OwnerRunCycle(TRUE)

OwnerSilent == OwnerRunCycle(FALSE)

PruneNext ==
    \/ OwnerFires
    \/ OwnerSilent

\* the owner fires infinitely often
PruneSpec == PruneInit /\ [][PruneNext]_vars /\ WF_vars(OwnerFires)

(***************************************************************************)
(* bin/hell_mazer_server.rs: the request handler and the cycle loop over   *)
(* the eight sensor channels                                               *)
(***************************************************************************)
\* mpsc::channel::<f32>(10), scaled down
ChannelBuffer == 2

\* number of PUT /sensactio requests received
MaxRequests == 3

\* the sensors in the order send_all sends to them
SendOrder ==
    <<"forward", "forward_pain", "left", "left_pain", "right", "right_pain",
      "back_pain", "back">>

Sensors == {SendOrder[i] : i \in 1..Len(SendOrder)}

\* the body of the n-th request: every sensor reads n
HttpSensorBody(n) == [s \in Sensors |-> n]

\* mpsc::Sender::try_send on a channel holding the queue q
try_send(q, v) ==
    IF Len(q) < ChannelBuffer THEN [ok |-> TRUE, q |-> Append(q, v)]
    ELSE [ok |-> FALSE, q |-> q]

\* mpsc::Receiver::try_recv
try_recv(q) ==
    IF q # <<>> THEN [ok |-> TRUE, val |-> Head(q), q |-> Tail(q)]
    ELSE [ok |-> FALSE, val |-> 0, q |-> q]

\* HttpReqSensor::measure on the receiver's queue q and the cache c
measure(q, c) ==
    LET r == try_recv(q)
    IN  IF r.ok THEN [val |-> r.val, q |-> r.q, cache |-> Some(r.val)]
        ELSE IF c.some THEN [val |-> c.val, q |-> q, cache |-> c]
        ELSE [val |-> 0, q |-> q, cache |-> c]

\* main() up to the two tasks: empty channels, HttpReqSensor::new caches, and
\* the order in which the encephalon's interface map yields the sensors
ServerInit ==
    /\ NoEncephalon
    /\ call = NoCall
    /\ ret = None
    /\ chan = [s \in Sensors |-> <<>>]
    /\ cache = [s \in Sensors |-> None]
    /\ sender = [next |-> 0]
    /\ requests = 0
    /\ cycle_loop \in {[order |-> o, todo |-> <<>>] :
                          o \in {SendOrder, Reverse(SendOrder)}}
    /\ measured = [s \in Sensors |-> None]
    /\ latest = [s \in Sensors |-> None]

\* the handler takes a request and enters send_all
ReceiveRequest ==
    /\ sender.next = 0
    /\ requests < MaxRequests
    /\ requests' = requests + 1
    /\ sender' = [next |-> 1, input |-> HttpSensorBody(requests + 1),
                  delivered |-> {}, result |-> ""]
    /\ UNCHANGED <<chan, cache, cycle_loop, measured, latest, call, ret, ecp_vars>>

\* one `try_send(...)?` of send_all: on a full channel send_all returns the
\* error, after the last sensor it returns Ok
TrySend ==
    /\ sender.next >= 1
    /\ \E s \in {SendOrder[sender.next]} : \E r \in {try_send(chan[s], sender.input[s])} :
          IF r.ok
          THEN /\ chan' = [chan EXCEPT ![s] = r.q]
               /\ latest' = [latest EXCEPT ![s] = Some(sender.input[s])]
               /\ sender' = [sender EXCEPT
                                !.delivered = @ \cup {s},
                                !.next = IF sender.next < Len(SendOrder)
                                         THEN sender.next + 1 ELSE 0,
                                !.result = IF sender.next < Len(SendOrder)
                                           THEN "" ELSE "Ok"]
          ELSE /\ sender' = [sender EXCEPT !.next = 0, !.result = "Full"]
               /\ UNCHANGED <<chan, latest>>
    /\ UNCHANGED <<cache, requests, cycle_loop, measured, call, ret, ecp_vars>>

\* loop { encephalon.run_cycle(); }: a cycle begins
StartCycle ==
    /\ cycle_loop.todo = <<>>
    /\ cycle_loop' = [cycle_loop EXCEPT !.todo = cycle_loop.order]
    /\ UNCHANGED <<chan, cache, sender, requests, measured, latest, call, ret,
                   ecp_vars>>

\* the running cycle's sensory interface calls measure() on its sensor
Measure ==
    /\ cycle_loop.todo # <<>>
    /\ \E s \in {Head(cycle_loop.todo)} : \E m \in {measure(chan[s], cache[s])} :
          /\ chan' = [chan EXCEPT ![s] = m.q]
          /\ cache' = [cache EXCEPT ![s] = m.cache]
          /\ measured' = [measured EXCEPT ![s] = Some(m.val)]
    /\ cycle_loop' = [cycle_loop EXCEPT !.todo = Tail(cycle_loop.todo)]
    /\ UNCHANGED <<sender, requests, latest, call, ret, ecp_vars>>

ServerNext ==
    \/ ReceiveRequest
    \/ TrySend
    \/ StartCycle
    \/ Measure

ServerSpec == ServerInit /\ [][ServerNext]_vars

(***************************************************************************)
(* Properties                                                              *)
(***************************************************************************)
CurrentCycle == get_charge_cycle(cycle_count)

\* a neuron has run its step of the current cycle
Visited(n) == cycle_count >= 1 /\ Len(fire_log[n]) = cycle_count

EmaOf(rx, sn, n) == IF n \in DOMAIN rx THEN rx[n].ema ELSE sn[n].ema

NeuronOf(n) == IF n \in DOMAIN rx_neurons THEN rx_neurons[n] ELSE sensory_neurons[n]

SentIn(n, cycle) == IF cycle = Even THEN sent[n].c0 ELSE sent[n].c1

Position(q, k) == CHOOSE i \in 1..Len(q) : q[i] = k

GeometryPanics ==
    {"actuators exceed area", "sensory exceed area", "subtract with overflow",
     "nearby exceeds volume"}

ConstructionPanics ==
    {"sensors do not match geometry", "actuators do not match geometry"}

\* ---- C1 ----------------------------------------------------------------
Rotate(q) == IF q = <<>> THEN q ELSE Append(Tail(q), Head(q))

\* odd positions first, then the even ones
Interleave(q) ==
    LET h == (Len(q) + 1) \div 2
    IN  [i \in 1..Len(q) |-> IF i <= h THEN q[2 * i - 1] ELSE q[2 * (i - h)]]

VisitOrders(q) == {q, Reverse(q), Rotate(q), Interleave(q)}

AtLoopStart ==
    /\ stage = "sensory_neurons"
    /\ sensory_todo = sensory_order
    /\ rx_todo = rx_order

Outcome(e) ==
    IF e.panicked
    THEN [rx |-> EmptyMap, sn |-> EmptyMap, panicked |-> TRUE]
    ELSE [rx |-> e.rx, sn |-> e.sn, panicked |-> FALSE]

RunNeuronLoops(so, ro) ==
    Outcome(run_rx_neurons(
                run_sensory_neurons(Net(rx_neurons, sensory_neurons), so, Ctx),
                ro, Ctx))

\* C1: from the state in which run_cycle enters its two neuron loops, and with
\* the random draws of the cycle fixed, every visit order of the sensory neurons
\* and every visit order of the receivers leaves every neuron in the same state
\* (charge slots, fire tracker, EMA, plastic synapses), or aborts in every order.
C1_OrderIndependence ==
    AtLoopStart =>
        \A so \in VisitOrders(sensory_order), ro \in VisitOrders(rx_order) :
            RunNeuronLoops(so, ro) = RunNeuronLoops(sensory_order, rx_order)

\* two firing receivers, one holding a synapse onto the other, in a cycle that
\* runs to its end
C1_Witness ==
    /\ AtLoopStart
    /\ ~RunNeuronLoops(sensory_order, rx_order).panicked
    /\ \E o \in DOMAIN rx_neurons, t \in DOMAIN rx_neurons :
          /\ o # t
          /\ rx_fires(rx_neurons[o], cfg.fire_threshold, cycle_count)
          /\ rx_fires(rx_neurons[t], cfg.fire_threshold, cycle_count)
          /\ \E i \in 1..Len(rx_neurons[o].plastic_synapses) :
                rx_neurons[o].plastic_synapses[i].target = t

\* ---- C2 ----------------------------------------------------------------
ImpulsesTo(r, q) ==
    SumSeq([i \in 1..Len(q) |-> IF q[i].target = r THEN q[i].impulse ELSE 0])

AllNeurons == sensory_order \o rx_order

\* sign * strength summed over every synapse onto r of the owners that fired
\* in the latest cycle of the given parity, each synapse once
DueTo(r, cycle) ==
    SumSeq([i \in 1..Len(AllNeurons) |-> ImpulsesTo(r, SentIn(AllNeurons[i], cycle))])

TwoPhaseCharge ==
    cycle_count >= 1 =>
        \A r \in DOMAIN rx_neurons :
            /\ get_charge(rx_neurons[r].internal_charge, next_cycle(CurrentCycle))
                  = DueTo(r, CurrentCycle)
            /\ get_charge(rx_neurons[r].internal_charge, CurrentCycle)
                  = IF Visited(r) THEN 0 ELSE DueTo(r, next_cycle(CurrentCycle))

\* C2: the charge a receiver r reads from its current slot in cycle c+1 is the
\* sum of sign * strength over every synapse onto r whose owner fired in cycle c
\* (r itself included), each counted once, nothing carried over: in cycle c the
\* next-parity slot of r holds what the owners that fired so far owe r, and
\* until r's own step the current slot holds what the previous cycle's owed.
C2_TwoPhaseCharge == TwoPhaseCharge

\* the same, as long as no run_cycle has aborted
C2_TwoPhaseChargeWhileRunning == panic # "run_cycle" => TwoPhaseCharge

\* ---- C3 ----------------------------------------------------------------
\* C3: after a successful construction every run_cycle runs to completion:
\* no neuron step panics.
C3_EveryStepTotal == panic # "run_cycle"

\* ---- C4 ----------------------------------------------------------------
\* C4: every sensory and every plastic neuron holds at most
\* max_plastic_synapses plastic synapses (none with a cap of 0).
C4_PlasticCap ==
    \A n \in Neurons : Len(NeuronOf(n).plastic_synapses) <= cfg.max_plastic_synapses

\* a neuron that went through its step of this cycle with its list at the cap
C4_Witness ==
    \E n \in Neurons :
        /\ cfg.max_plastic_synapses > 0
        /\ cycle_count >= 3
        /\ Visited(n)
        /\ Len(NeuronOf(n).plastic_synapses) = cfg.max_plastic_synapses

\* ---- C5 ----------------------------------------------------------------
\* C5: once a receiver has run its step of cycle c, its parity(c) charge slot
\* is 0 for the rest of the cycle, whether or not it fired and whoever fires
\* afterwards.
C5_CurrentSlotZero ==
    \A r \in DOMAIN rx_neurons :
        Visited(r) => get_charge(rx_neurons[r].internal_charge, CurrentCycle) = 0

\* r fired in this cycle, and o, visited after r, fired onto r
C5_Witness ==
    \E r \in DOMAIN rx_neurons, o \in DOMAIN rx_neurons :
        /\ Visited(r) /\ Visited(o)
        /\ fire_log[r][cycle_count] /\ fire_log[o][cycle_count]
        /\ Position(rx_order, r) < Position(rx_order, o)
        /\ ImpulsesTo(r, SentIn(o, CurrentCycle)) # 0

\* ---- C6 ----------------------------------------------------------------
Decision(n, c) == c >= 1 /\ fire_log[n][c]

\* C6: at every point of cycle c+1 fired_on_prev_cycle() of a neuron is its fire
\* decision of cycle c, and at the start of its step in cycle c+2
\* fired_on_prev_prev() is that decision too; before the first cycle both are
\* false.
C6_FireTracking ==
    \A n \in Neurons :
        /\ fired_on_prev_cycle(NeuronOf(n), cycle_count) = Decision(n, cycle_count - 1)
        /\ ~Visited(n) =>
              fired_on_prev_prev(NeuronOf(n), cycle_count) = Decision(n, cycle_count - 2)

\* a neuron whose decisions of the last three cycles alternate, after its step,
\* and one before its step whose last two decisions differ
C6_Witness ==
    /\ \E n \in Neurons :
          /\ cycle_count >= 3 /\ Visited(n)
          /\ fire_log[n][cycle_count - 1] /\ ~fire_log[n][cycle_count]
    /\ \E n \in Neurons :
          /\ cycle_count >= 3 /\ ~Visited(n)
          /\ fire_log[n][cycle_count - 2] /\ ~fire_log[n][cycle_count - 1]

\* ---- C7 ----------------------------------------------------------------
\* C7: the EMA of every neuron stays within [0, 1].
C7_EmaBounded ==
    \A n \in Neurons :
        /\ 0 <= EmaOf(rx_neurons, sensory_neurons, n)
        /\ EmaOf(rx_neurons, sensory_neurons, n) <= One

\* a neuron that fired three times in a row
C7_Witness ==
    \E n \in Neurons :
        /\ cycle_count >= 3 /\ Visited(n)
        /\ \A c \in (cycle_count - 2)..cycle_count : fire_log[n][c]
        /\ EmaOf(rx_neurons, sensory_neurons, n) > cfg.ema_alpha

\* ---- C8 ----------------------------------------------------------------
Stepped(n) == Len(fire_log'[n]) = Len(fire_log[n]) + 1

\* C8 as stated: a step in which the neuron fires leaves its EMA strictly
\* greater, a step in which it does not fire leaves it strictly smaller.
C8_EmaStrictlyMoves ==
    [][\A n \in Neurons :
          Stepped(n) =>
              IF Last(fire_log'[n])
              THEN EmaOf(rx_neurons', sensory_neurons', n)
                      > EmaOf(rx_neurons, sensory_neurons, n)
              ELSE EmaOf(rx_neurons', sensory_neurons', n)
                      < EmaOf(rx_neurons, sensory_neurons, n)]_vars

\* C8, amended: a step in which the neuron fires leaves its EMA strictly
\* greater; a step in which it does not fire leaves an EMA above 0 strictly
\* smaller and an EMA of 0 at 0.
C8_EmaMoves ==
    [][\A n \in Neurons :
          Stepped(n) =>
              IF Last(fire_log'[n])
              THEN EmaOf(rx_neurons', sensory_neurons', n)
                      > EmaOf(rx_neurons, sensory_neurons, n)
              ELSE IF EmaOf(rx_neurons, sensory_neurons, n) > 0
              THEN EmaOf(rx_neurons', sensory_neurons', n)
                      < EmaOf(rx_neurons, sensory_neurons, n)
              ELSE EmaOf(rx_neurons', sensory_neurons', n) = 0]_vars

\* a neuron that fired and then did not, and one that never fired
C8_Witness ==
    /\ \E n \in Neurons :
          /\ cycle_count >= 2 /\ Visited(n)
          /\ fire_log[n][cycle_count - 1] /\ ~fire_log[n][cycle_count]
          /\ EmaOf(rx_neurons, sensory_neurons, n) > 0
    /\ \E n \in Neurons :
          /\ Visited(n)
          /\ \A c \in 1..cycle_count : ~fire_log[n][c]
          /\ EmaOf(rx_neurons, sensory_neurons, n) = 0

\* ---- C9 ----------------------------------------------------------------
EncephalonNewCalled ==
    stage \notin {"box_ecp_new", "encephalon_new"} /\ panic \notin GeometryPanics

\* C9: Encephalon::new aborts, with no neuron created, whenever the number of
\* sensors differs from the geometry's num_sensory or the number of actuators
\* from its num_actuator; with both counts matching (side L >= 1) it returns an
\* encephalon.
C9_CountMismatchAborts ==
    EncephalonNewCalled =>
        LET mismatch ==
                \/ Len(cfg.sensors) # ecp_geometry.num_sensory
                \/ Len(cfg.actuators) # ecp_geometry.num_actuator
        IN  /\ mismatch =>
                  /\ stage = "aborted"
                  /\ panic \in ConstructionPanics
                  /\ DOMAIN rx_neurons = {}
                  /\ DOMAIN sensory_neurons = {}
                  /\ DOMAIN sensory_interfaces = {}
                  /\ DOMAIN actuator_interfaces = {}
            /\ (~mismatch /\ ecp_geometry.side_length >= 1) =>
                  /\ panic \notin ConstructionPanics
                  /\ DOMAIN rx_neurons # {}

\* the sensors match and the actuators do not
C9_Witness ==
    /\ stage = "aborted"
    /\ panic = "actuators do not match geometry"
    /\ Len(cfg.sensors) = ecp_geometry.num_sensory
    /\ Len(cfg.actuators) < ecp_geometry.num_actuator

\* ---- C10 ---------------------------------------------------------------
\* the largest odd integer whose cube is at most n
LargestOddRoot(n) ==
    CHOOSE k \in -1..n :
        /\ k % 2 = 1
        /\ k * k * k <= n
        /\ (k + 2) * (k + 2) * (k + 2) > n

\* C10: BoxEcp::new fails exactly when numActuator > L^2, numSensory > L^2 or
\* N^3 > L^3 (L the largest integer with L^3 <= desiredPlastic, N the largest
\* odd integer with N^3 <= nearbyCount, for every nearbyCount >= 0); otherwise
\* it returns a geometry with L^3 plastic cells, the given counts and an odd
\* nearby side N <= L.
C10_BoxEcpNew ==
    stage # "box_ecp_new" =>
        LET L == CHOOSE k \in 0..cfg.desired_num_plastic :
                    k * k * k <= cfg.desired_num_plastic
                    /\ (k + 1) * (k + 1) * (k + 1) > cfg.desired_num_plastic
            N == LargestOddRoot(cfg.nearby_count)
            infeasible ==
                \/ cfg.num_actuator > L * L
                \/ cfg.num_sensory > L * L
                \/ N * N * N > L * L * L
        IN  /\ infeasible <=> panic \in GeometryPanics
            /\ ~infeasible =>
                  /\ ecp_geometry.num_plastic = L * L * L
                  /\ ecp_geometry.num_sensory = cfg.num_sensory
                  /\ ecp_geometry.num_actuator = cfg.num_actuator
                  /\ ecp_geometry.nearby_side_length = N
                  /\ N % 2 = 1
                  /\ N <= L

\* the same for nearbyCount >= 1
C10_BoxEcpNewPositiveNearby == cfg.nearby_count >= 1 => C10_BoxEcpNew

\* ---- C11 ---------------------------------------------------------------
GeometryBuilt == stage # "box_ecp_new" /\ panic \notin GeometryPanics

\* first_rx_loc followed by next_rx_loc until it returns None
RECURSIVE RxEnumerationFrom(_, _)
RxEnumerationFrom(geo, entry) ==
    LET nxt == next_rx_loc(geo, entry.loc)
    IN  IF nxt.some THEN <<entry>> \o RxEnumerationFrom(geo, nxt.val)
        ELSE <<entry>>

RxEnumeration(geo) == RxEnumerationFrom(geo, first_rx_loc)

\* the i-th cell of [0,L)^3 in row-major order, x fastest
RowMajorCell(i, L) == <<(i - 1) % L, ((i - 1) \div L) % L, (i - 1) \div (L * L)>>

RowMajorOrder ==
    GeometryBuilt /\ ecp_geometry.side_length >= 1 =>
        \E en \in {RxEnumeration(ecp_geometry)} :
            LET L == ecp_geometry.side_length
            IN  /\ Len(en) = L * L * L
                /\ \A i \in 1..Len(en) :
                      /\ en[i].loc = RowMajorCell(i, L)
                      /\ en[i].hash = loc_hash(en[i].loc)

\* C11: the receiver enumeration visits every cell of [0,L)^3 once, in
\* row-major order, and tags a cell Actuator iff it lies on the face z = L-1
\* with flat index y*L + x < num_actuator, all other cells Plastic, so that
\* num_actuator cells are tagged Actuator.
C11_RxEnumeration ==
    /\ RowMajorOrder
    /\ GeometryBuilt /\ ecp_geometry.side_length >= 1 =>
          \E en \in {RxEnumeration(ecp_geometry)} :
              LET L == ecp_geometry.side_length
                  tagged == {i \in 1..Len(en) : en[i].kind = "Actuator"}
              IN  /\ \A i \in 1..Len(en) :
                        en[i].kind = "Actuator" <=>
                            /\ en[i].loc[3] = L - 1
                            /\ en[i].loc[2] * L + en[i].loc[1] < ecp_geometry.num_actuator
                  /\ Cardinality(tagged) = ecp_geometry.num_actuator

\* the order of the visit alone
C11_RowMajorOrder == RowMajorOrder

\* ---- C12 ---------------------------------------------------------------
\* Encephalon::new has returned
Constructed == EncephalonNewCalled /\ panic \notin ConstructionPanics

SeqRange(q) == {q[i] : i \in 1..Len(q)}

\* the far-face cell with flat index k
FarFaceCell(k, L) == <<k % L, k \div L, L - 1>>

\* C12: after construction there are exactly num_actuator actuator interfaces,
\* keyed by actuator name, each pairing a supplied actuator with its own
\* ActuatorNeuron stored in the receiver index at a far-face cell; the
\* actuators are taken from the end of the list, the last one going to the
\* first Actuator cell.
C12_ActuatorPairing ==
    Constructed =>
        LET L == ecp_geometry.side_length
            n == Len(cfg.actuators)
        IN  /\ DOMAIN actuator_interfaces = SeqRange(cfg.actuators)
            /\ Cardinality(DOMAIN actuator_interfaces) = ecp_geometry.num_actuator
            /\ \A k \in 1..n :
                  LET name == cfg.actuators[n + 1 - k]
                      cell == loc_hash(FarFaceCell(k - 1, L))
                  IN  /\ name \in DOMAIN actuator_interfaces
                      /\ actuator_interfaces[name].actuator = name
                      /\ actuator_interfaces[name].actuator_neuron = cell
                      /\ cell \in DOMAIN rx_neurons
                      /\ rx_neurons[cell].kind = "Actuator"

\* ---- C13 ---------------------------------------------------------------
\* first_sensory_loc followed by next_sensory_loc until it returns None
RECURSIVE SensoryEnumerationFrom(_, _)
SensoryEnumerationFrom(geo, entry) ==
    LET nxt == next_sensory_loc(geo, entry.loc)
    IN  IF nxt.some THEN <<entry>> \o SensoryEnumerationFrom(geo, nxt.val)
        ELSE <<entry>>

SensoryEnumeration(geo) == SensoryEnumerationFrom(geo, first_sensory_loc)

\* C13: sensors are paired from the end of the caller's list: the k-th position
\* of the sensory enumeration (k = 0, 1, ...) holds the neuron paired with the
\* sensor at index len-1-k, and there is one sensory interface per supplied
\* sensor, keyed by its name.
C13_SensorPairing ==
    Constructed =>
        \E en \in {SensoryEnumeration(ecp_geometry)} :
            LET n == Len(cfg.sensors)
            IN  /\ DOMAIN sensory_interfaces = {cfg.sensors[i].name : i \in 1..n}
                /\ Cardinality(DOMAIN sensory_interfaces) = n
                /\ \A k \in 0..(n - 1) :
                      LET sensor == cfg.sensors[n - k]
                      IN  /\ sensory_interfaces[sensor.name].sensor = sensor
                          /\ sensory_interfaces[sensor.name].sensory_neuron = en[k + 1].hash
                          /\ en[k + 1].hash \in DOMAIN sensory_neurons

\* two sensors, paired
C13_Witness ==
    /\ Constructed
    /\ Len(cfg.sensors) = 2
    /\ sensory_interfaces[cfg.sensors[2].name].sensory_neuron = first_sensory_loc.hash
    /\ sensory_interfaces[cfg.sensors[1].name].sensory_neuron # first_sensory_loc.hash

\* ---- C14 ---------------------------------------------------------------
SensorNames == {cfg.sensors[i].name : i \in 1..Len(cfg.sensors)}

\* the reflex entries from sensor s whose two names are both supplied
InstallableReflexes(s) ==
    SelectSeq(cfg.reflexes,
              LAMBDA r : /\ r.sensor_name = s
                         /\ r.sensor_name \in SensorNames
                         /\ r.actuator_name \in SeqRange(cfg.actuators))

\* the supplied sensors paired with the sensory neuron `key`
SensorsOf(key) ==
    {s \in DOMAIN sensory_interfaces : sensory_interfaces[s].sensory_neuron = key}

\* C14: after construction the static synapses are exactly one per reflex entry
\* whose sensor and actuator names are both supplied, from the named sensor's
\* neuron to the named actuator's neuron with the entry's strength and type;
\* entries with an unknown name add nothing.
C14_ReflexInstallation ==
    Constructed =>
        /\ \A key \in DOMAIN rx_neurons : rx_neurons[key].static_synapses = <<>>
        /\ \A key \in DOMAIN sensory_neurons :
              /\ SensorsOf(key) = {} => sensory_neurons[key].static_synapses = <<>>
              /\ \A s \in SensorsOf(key) :
                    LET due == InstallableReflexes(s)
                        got == sensory_neurons[key].static_synapses
                    IN  /\ Len(got) = Len(due)
                        /\ \A i \in 1..Len(due) :
                              /\ got[i].strength = due[i].strength
                              /\ got[i].synaptic_type = due[i].synapse_type
                              /\ due[i].actuator_name \in DOMAIN actuator_interfaces
                              /\ got[i].target =
                                    actuator_interfaces[due[i].actuator_name].actuator_neuron

\* ---- C15 ---------------------------------------------------------------
ChargeIn(rx, r, cycle) == get_charge(rx[r].internal_charge, cycle)

\* what the reflexes from sensor s add to the receiver r when s's neuron fires
ReflexImpulseTo(s, r) ==
    LET due == InstallableReflexes(s)
    IN  SumSeq([i \in 1..Len(due) |->
                  IF actuator_interfaces[due[i].actuator_name].actuator_neuron = r
                  THEN get_synapse_modifier(due[i].synapse_type) * due[i].strength
                  ELSE 0])

\* C15: with a cap of 0 plastic synapses, for every declared reflex
\* (s -> a, type, w) between a supplied sensor and a supplied actuator, a fire of
\* s's sensory neuron in cycle c adds sign(type) * w to the cycle-c+1 slot of
\* a's neuron and changes no other charge slot.
C15_ReflexPropagation ==
    [][cfg.max_plastic_synapses = 0 =>
          \A n \in DOMAIN sensory_neurons : \A s \in SensorsOf(n) :
              (Stepped(n) /\ Last(fire_log'[n])) =>
                  /\ \A i \in 1..Len(InstallableReflexes(s)) :
                        InstallableReflexes(s)[i].actuator_name
                            \in DOMAIN actuator_interfaces
                  /\ \A r \in DOMAIN rx_neurons :
                        /\ ChargeIn(rx_neurons', r, next_cycle(CurrentCycle))
                              = ChargeIn(rx_neurons, r, next_cycle(CurrentCycle))
                                   + ReflexImpulseTo(s, r)
                        /\ ChargeIn(rx_neurons', r, CurrentCycle)
                              = ChargeIn(rx_neurons, r, CurrentCycle)]_vars

\* ---- C16 ---------------------------------------------------------------
\* desired_num_plastic = 8, one sensor constantly measuring 1.0, one actuator,
\* one excitatory reflex between them above the fire threshold
SingleReflexScenario ==
    /\ cfg.desired_num_plastic = 8
    /\ cfg.num_sensory = 1 /\ cfg.num_actuator = 1
    /\ cfg.sensors = <<ConstantSensor("s1", One)>>
    /\ cfg.actuators = <<"a1">>
    /\ Len(InstallableReflexes("s1")) = 1
    /\ InstallableReflexes("s1")[1].synapse_type = Excitatory
    /\ InstallableReflexes("s1")[1].strength > cfg.fire_threshold

\* the EMA after k fires in a row from 0
RECURSIVE EmaAfterFires(_)
EmaAfterFires(k) ==
    IF k = 0 THEN 0 ELSE ema_fired(cfg.ema_alpha, EmaAfterFires(k - 1))

\* C16: in the single excitatory reflex scenario (period 1) the actuator neuron
\* fires in every cycle c >= 2 and its EMA rises with every such cycle, staying
\* below 1.
C16_SingleExcitatoryReflex ==
    (SingleReflexScenario /\ Constructed) =>
        /\ "a1" \in DOMAIN actuator_interfaces
        /\ \E a \in {actuator_interfaces["a1"].actuator_neuron} :
              /\ a \in DOMAIN rx_neurons
              /\ \A c \in 2..Len(fire_log[a]) : fire_log[a][c]
              /\ Len(fire_log[a]) >= 2 =>
                    /\ rx_neurons[a].ema = EmaAfterFires(Len(fire_log[a]) - 1)
                    /\ rx_neurons[a].ema > EmaAfterFires(Len(fire_log[a]) - 2)
                    /\ rx_neurons[a].ema < One

\* ---- C17 ---------------------------------------------------------------
\* geometry (8, 0, 1, 1), no sensors, one actuator, no reflexes
SilentNetworkScenario ==
    /\ cfg.desired_num_plastic = 8
    /\ cfg.num_sensory = 0 /\ cfg.num_actuator = 1 /\ cfg.nearby_count = 1
    /\ cfg.sensors = <<>>
    /\ cfg.actuators = <<"a1">>
    /\ cfg.reflexes = <<>>

SilentNetworkRuns ==
    /\ panic # "run_cycle"
    /\ \A r \in DOMAIN rx_neurons : rx_neurons[r].ema = 0
    /\ \A a \in DOMAIN actuator_interfaces :
          rx_neurons[actuator_interfaces[a].actuator_neuron].ema = 0

\* C17: the silent network can be run cycle after cycle, and after every cycle
\* the EMA of the actuator's neuron (of every receiver) is 0.
C17_SilentNetwork == (SilentNetworkScenario /\ Constructed) => SilentNetworkRuns

\* the same with a cap of 0 plastic synapses
C17_SilentNetworkWithoutSprouting ==
    (SilentNetworkScenario /\ Constructed /\ cfg.max_plastic_synapses = 0) =>
        SilentNetworkRuns

\* ---- C18 ---------------------------------------------------------------
PeriodDivides(period, c) == IF period = 0 THEN FALSE ELSE c % period = 0

\* C18: in cycle c a sensory neuron fires (an impulse on each of its plastic
\* and static synapses, fired = true recorded, fired EMA update) iff its period
\* is non-zero and c mod period = 0; otherwise it delivers nothing, records
\* fired = false and applies the non-fired update.
C18_SensoryFireRule ==
    [][\A n \in DOMAIN sensory_neurons :
          Stepped(n) =>
              \E fires \in {PeriodDivides(sensory_neurons[n].period, cycle_count)} :
                  /\ Last(fire_log'[n]) = fires
                  /\ tracker_value(sensory_neurons'[n].fire_tracker, CurrentCycle) = fires
                  /\ sensory_neurons'[n].ema =
                        IF fires
                        THEN cfg.ema_alpha + Mul(One - cfg.ema_alpha, sensory_neurons[n].ema)
                        ELSE Mul(One - cfg.ema_alpha, sensory_neurons[n].ema)
                  /\ \A r \in DOMAIN rx_neurons :
                        /\ ChargeIn(rx_neurons', r, CurrentCycle)
                              = ChargeIn(rx_neurons, r, CurrentCycle)
                        /\ ChargeIn(rx_neurons', r, next_cycle(CurrentCycle))
                              = ChargeIn(rx_neurons, r, next_cycle(CurrentCycle))
                                   + (IF fires
                                      THEN ImpulsesTo(r, impulses_of(
                                               sensory_neurons'[n].plastic_synapses,
                                               sensory_neurons'[n].static_synapses))
                                      ELSE 0)]_vars

\* a neuron of period 2 with a synapse after a cycle it skipped and one it
\* fired in, next to a neuron of period 0
C18_Witness ==
    /\ cycle_count = 3
    /\ \E n \in DOMAIN sensory_neurons :
          /\ Visited(n)
          /\ sensory_neurons[n].period = 2
          /\ sensory_neurons[n].plastic_synapses # <<>>
          /\ fire_log[n] = <<FALSE, TRUE, FALSE>>
    /\ \E n \in DOMAIN sensory_neurons :
          /\ Visited(n)
          /\ sensory_neurons[n].period = 0
          /\ fire_log[n] = <<FALSE, FALSE, FALSE>>

\* ---- C19 ---------------------------------------------------------------
\* C19: a plastic or actuator neuron fires in cycle c iff the charge in its
\* parity(c) slot is strictly greater than the fire threshold; a charge equal
\* to the threshold, or a negative one, does not fire.
C19_RxFireRule ==
    [][\A r \in DOMAIN rx_neurons :
          Stepped(r) =>
              \E fires \in {ChargeIn(rx_neurons, r, CurrentCycle) > cfg.fire_threshold} :
                  /\ Last(fire_log'[r]) = fires
                  /\ tracker_value(rx_neurons'[r].fire_tracker, CurrentCycle) = fires
                  /\ fires => SentIn(r, CurrentCycle)' =
                                  impulses_of(rx_neurons'[r].plastic_synapses,
                                              rx_neurons'[r].static_synapses)
                  /\ ~fires => SentIn(r, CurrentCycle)' = <<>>]_vars

\* a receiver that read exactly the threshold and one that read a negative
\* charge, neither firing
C19_Witness ==
    /\ \E r \in DOMAIN rx_neurons :
          /\ Visited(r)
          /\ DueTo(r, next_cycle(CurrentCycle)) = cfg.fire_threshold
          /\ ~fire_log[r][cycle_count]
    /\ \E r \in DOMAIN rx_neurons :
          /\ Visited(r)
          /\ DueTo(r, next_cycle(CurrentCycle)) < 0
          /\ ~fire_log[r][cycle_count]

\* ---- C20 ---------------------------------------------------------------
PlasticSynapsesOf(rx, sn, n) ==
    IF n \in DOMAIN rx THEN rx[n].plastic_synapses ELSE sn[n].plastic_synapses

\* the synapse after the strengthen or decay of the owner's step in the running
\* cycle: none unless the owner fired two cycles ago
AfterHebbianUpdate(syn, owner) ==
    IF Decision(owner, cycle_count - 2)
    THEN IF Decision(syn.target, cycle_count - 1)
         THEN [syn EXCEPT !.strength = strengthen(@)]
         ELSE [syn EXCEPT !.strength = weaken(@)]
    ELSE syn

\* C20: at every prune step every plastic synapse whose strength, after the
\* step's strengthen or decay if any, is at most its weakness threshold is
\* removed, and every synapse strictly above it is kept, in unchanged order,
\* whether or not the owner fired two cycles ago.
C20_PruneRule ==
    [][\A n \in Neurons :
          Stepped(n) =>
              \E old \in {PlasticSynapsesOf(rx_neurons, sensory_neurons, n)} :
              \E new \in {PlasticSynapsesOf(rx_neurons', sensory_neurons', n)} :
                  LET updated == [i \in 1..Len(old) |-> AfterHebbianUpdate(old[i], n)]
                      kept == SelectSeq(updated,
                                        LAMBDA y : y.strength.strength
                                                      > y.strength.weakness_threshold)
                  IN  /\ Len(new) \in {Len(kept), Len(kept) + 1}
                      /\ SubSeq(new, 1, Len(kept)) = kept]_vars

\* the owner fired in the two cycles before, its synapse of twice the weakness
\* threshold fired onto a target that stayed silent, and the owner has run the
\* prune step that decays it to exactly the threshold
C20_Witness ==
    \E n \in Neurons :
        /\ cycle_count >= 3
        /\ Visited(n)
        /\ fire_log[n][cycle_count - 2]
        /\ fire_log[n][cycle_count - 1]
        /\ \E i \in 1..Len(SentIn(n, next_cycle(CurrentCycle))) :
              LET imp == SentIn(n, next_cycle(CurrentCycle))[i]
              IN  /\ imp.impulse = 2 * cfg.strength_weakness_threshold
                  /\ cfg.strength_alpha = One \div 2
                  /\ ~fire_log[imp.target][cycle_count - 1]
        /\ \A i \in 1..Len(NeuronOf(n).plastic_synapses) :
              NeuronOf(n).plastic_synapses[i].strength.strength
                  > cfg.strength_weakness_threshold

\* ---- C21 ---------------------------------------------------------------
\* run_cycle is in progress
InRunCycle ==
    stage \in {"sensory_interfaces", "actuator_interfaces", "sensory_neurons",
               "rx_neurons"}

\* the parity slot a neuron's tracker recorded its latest decision under
RecordedCycle(rx, sn, n) ==
    IF n \in DOMAIN rx THEN rx[n].fire_tracker.last_recorded_current_cycle
    ELSE sn[n].fire_tracker.last_recorded_current_cycle

\* C21: each run_cycle increments the cycle counter exactly once, before
\* anything else (0 before the first cycle, 1 during it), then runs the sensory
\* interfaces, then the actuator interfaces, then every sensory neuron's step,
\* then every receiver's step; no receiver step starts before all sensory
\* neurons have finished, and every step of one cycle sees the same counter
\* value and the same charge parity.
C21_CycleDriverOrder ==
    [][/\ cycle_count' # cycle_count =>
              /\ stage = "idle" /\ stage' = "sensory_interfaces"
              /\ cycle_count' = cycle_count + 1
       /\ (stage = "idle" /\ stage' # "idle") => cycle_count' = cycle_count + 1
       /\ stage \in {"box_ecp_new", "encephalon_new"} => cycle_count = 0
       /\ InRunCycle => cycle_count >= 1
       /\ stage' = "actuator_interfaces" => stage = "sensory_interfaces"
       /\ stage = "sensory_interfaces" => stage' = "actuator_interfaces"
       /\ stage = "actuator_interfaces" =>
              /\ stage' \in {"sensory_neurons", "rx_neurons"}
              /\ \A n \in Neurons : Len(fire_log[n]) = cycle_count - 1
       /\ (stage' = "sensory_neurons" /\ stage # "sensory_neurons") =>
              stage = "actuator_interfaces"
       /\ (stage' = "rx_neurons" /\ stage # "rx_neurons") =>
              stage \in {"actuator_interfaces", "sensory_neurons"}
       /\ \A n \in DOMAIN sensory_neurons :
              Stepped(n) =>
                 /\ stage = "sensory_neurons"
                 /\ Len(fire_log'[n]) = cycle_count
                 /\ RecordedCycle(rx_neurons', sensory_neurons', n) = CurrentCycle
                 /\ \A r \in DOMAIN rx_neurons : ~Visited(r)
       /\ \A r \in DOMAIN rx_neurons :
              Stepped(r) =>
                 /\ stage = "rx_neurons"
                 /\ Len(fire_log'[r]) = cycle_count
                 /\ RecordedCycle(rx_neurons', sensory_neurons', r) = CurrentCycle
                 /\ \A n \in DOMAIN sensory_neurons : Visited(n)
       /\ (stage = "rx_neurons" /\ stage' = "idle") =>
              \A n \in Neurons : Len(fire_log'[n]) = cycle_count]_vars

\* the receiver loop of the second cycle, entered after several sensory
\* neurons have run, with one receiver visited and another still to come
C21_Witness ==
    /\ stage = "rx_neurons"
    /\ cycle_count = 2
    /\ Cardinality(DOMAIN sensory_neurons) >= 4
    /\ \A n \in DOMAIN sensory_neurons : Visited(n)
    /\ \E r \in DOMAIN rx_neurons : Visited(r)
    /\ \E r \in DOMAIN rx_neurons : ~Visited(r)

\* ---- C22 ---------------------------------------------------------------
LatticeHashes(L) ==
    {loc_hash(<<x, y, z>>) : x \in 0..(L - 1), y \in 0..(L - 1), z \in 0..(L - 1)}

LocalityCalled == call.fn = "local_random_neuron" /\ ret.some

\* C22: for every accepted geometry and every location (x, y, z) with x, y in
\* [0, L-1] and z in [-1, L-1], local_random_neuron returns an existing
\* receiver, at a cell whose three coordinates lie in [0, L-1], and never none.
C22_LocalityInBounds ==
    LocalityCalled =>
        /\ ~ret.val.panic
        /\ ret.val.neuron.some
        /\ ret.val.neuron.val \in LatticeHashes(CalledGeometry.side_length)
        /\ ret.val.neuron.val \in DOMAIN CalledReceivers

\* the same for the calls that return, and for a nearby side N >= 3
C22_LocalityInBoundsOnReturn ==
    LocalityCalled =>
        /\ ret.val.panic <=> CalledGeometry.nearby_side_length = 1
        /\ ~ret.val.panic =>
              /\ ret.val.neuron.some
              /\ ret.val.neuron.val \in LatticeHashes(CalledGeometry.side_length)
              /\ ret.val.neuron.val \in DOMAIN CalledReceivers

\* ---- C23 ---------------------------------------------------------------
\* the hashes local_random_hash returns for loc over every draw of the generator
LocalityOutcomes(geo, loc) ==
    {h.hash.val : h \in {r \in {local_random_hash(geo, loc, w) : w \in RngWords} :
                              ~r.panic /\ r.hash.some}}

\* lowest coordinate of the side-N interval centred on c, shifted into [0, L-1]
ShiftedBottom(c, N, L) ==
    LET b == c - ((N - 1) \div 2)
    IN  IF b < 0 THEN 0 ELSE IF b + N - 1 > L - 1 THEN L - N ELSE b

NearbyCube(geo, loc) ==
    LET N == geo.nearby_side_length
        L == geo.side_length
    IN  {loc_hash(<<x, y, z>>) :
            x \in ShiftedBottom(loc[1], N, L)..(ShiftedBottom(loc[1], N, L) + N - 1),
            y \in ShiftedBottom(loc[2], N, L)..(ShiftedBottom(loc[2], N, L) + N - 1),
            z \in ShiftedBottom(loc[3], N, L)..(ShiftedBottom(loc[3], N, L) + N - 1)}

\* C23: for every location loc the cells the locality query can return are
\* exactly the N x N x N cube centred on loc after shifting it to lie inside
\* [0, L-1] on each axis: each of its N^3 cells is a possible outcome and no
\* other cell is.
C23_LocalityCube ==
    call.fn = "local_random_neuron" =>
        LocalityOutcomes(CalledGeometry, call.loc) = NearbyCube(CalledGeometry, call.loc)

\* no cell outside the cube is an outcome
C23_OutcomesInsideCube ==
    call.fn = "local_random_neuron" =>
        LocalityOutcomes(CalledGeometry, call.loc)
            \subseteq NearbyCube(CalledGeometry, call.loc)

\* ---- C24 ---------------------------------------------------------------
\* C24: each of the three encoders (ema with constant alpha, linear with
\* y-intercept y0 > 1, inverse) maps input 0 to period 0.
C24_ZeroInputSilences ==
    (call.fn = "encode_sensory_input" /\ call.input = 0 /\ ret.some) => ret.val = 0

\* the identities: linear(1, y0) = 1, inverse(1) = 1, ema(0, alpha) = 0
C24_EncoderIdentities ==
    (call.fn = "encode_sensory_input" /\ ret.some) =>
        /\ (call.encoder.kind = "EMA" /\ call.input = 0) => ret.val = 0
        /\ (call.encoder.kind # "EMA" /\ call.input = One) => ret.val = 1

\* in the encephalon (linear encoder): a sensory neuron whose sensor keeps
\* measuring 0 never fires
C24_ZeroSensorNeverFires ==
    \A s \in DOMAIN sensory_interfaces :
        sensory_interfaces[s].sensor.value = 0 =>
            \A c \in 1..Len(fire_log[sensory_interfaces[s].sensory_neuron]) :
                ~fire_log[sensory_interfaces[s].sensory_neuron][c]

\* ---- C25 ---------------------------------------------------------------
StaticSynapsesOf(rx, sn, n) ==
    IF n \in DOMAIN rx THEN rx[n].static_synapses ELSE sn[n].static_synapses

\* C25: every step of run_cycle leaves every neuron's static synapse list
\* unchanged: after construction no static synapse is added, removed or
\* reordered, and none changes its strength, type or target.
C25_StaticSynapsesFixed ==
    [][Constructed =>
          /\ DOMAIN rx_neurons' = DOMAIN rx_neurons
          /\ DOMAIN sensory_neurons' = DOMAIN sensory_neurons
          /\ \A n \in Neurons :
                StaticSynapsesOf(rx_neurons', sensory_neurons', n)
                    = StaticSynapsesOf(rx_neurons, sensory_neurons, n)]_vars

\* three cycles run on an encephalon built with a reflex between a supplied
\* sensor and a supplied actuator, its neurons having sprouted, fired and pruned
C25_Witness ==
    /\ Constructed
    /\ stage = "idle"
    /\ cycle_count >= 3
    /\ "s1" \in DOMAIN sensory_interfaces
    /\ Len(InstallableReflexes("s1")) >= 1
    /\ \E n \in Neurons :
          /\ NeuronOf(n).plastic_synapses # <<>>
          /\ fire_log[n][cycle_count]

\* ---- C26 ---------------------------------------------------------------
LatticeCells(L) ==
    {<<x, y, z>> : x \in 0..(L - 1), y \in 0..(L - 1), z \in 0..(L - 1)}

\* one receiver per lattice cell, stored under the hash of its own cell; the
\* L^3 cells giving L^3 hashes is what makes distinct cells hash apart
ReceiverIndexed ==
    \E L \in {ecp_geometry.side_length} :
      \E hashes \in {{loc_hash(c) : c \in LatticeCells(L)}} :
        /\ DOMAIN rx_neurons = hashes
        /\ Cardinality(hashes) = L * L * L
        /\ Cardinality(LatticeCells(L)) = L * L * L
        /\ \A h \in hashes :
              rx_neurons[h].kind = "Actuator" \/ loc_hash(rx_neurons[h].loc) = h

\* C26: after construction the receiver index holds exactly one neuron per
\* lattice cell of [0,L)^3, keyed by that cell's hash (distinct cells have
\* distinct hashes), and no step of run_cycle adds, removes or replaces a
\* receiver, a sensory neuron or an interface.
C26_ReceiverIndex ==
    [][/\ Constructed' => ReceiverIndexed'
       /\ Constructed =>
             /\ DOMAIN rx_neurons' = DOMAIN rx_neurons
             /\ DOMAIN sensory_neurons' = DOMAIN sensory_neurons
             /\ \A r \in DOMAIN rx_neurons :
                   /\ rx_neurons'[r].kind = rx_neurons[r].kind
                   /\ rx_neurons[r].kind = "Plastic" =>
                         rx_neurons'[r].loc = rx_neurons[r].loc
             /\ \A n \in DOMAIN sensory_neurons :
                   sensory_neurons'[n].loc = sensory_neurons[n].loc
             /\ sensory_interfaces' = sensory_interfaces
             /\ actuator_interfaces' = actuator_interfaces
             /\ rx_order' = rx_order
             /\ sensory_order' = sensory_order]_vars

\* a lattice of side 3 with its 27 receivers and two sensory interfaces, after
\* two cycles in which synapses were sprouted
C26_Witness ==
    /\ Constructed
    /\ stage = "idle"
    /\ cycle_count >= 2
    /\ ecp_geometry.side_length = 3
    /\ Cardinality(DOMAIN rx_neurons) = 27
    /\ Cardinality(DOMAIN sensory_interfaces) = 2
    /\ \E r \in DOMAIN rx_neurons : rx_neurons[r].plastic_synapses # <<>>

\* ---- C27 ---------------------------------------------------------------
StrengthCalled == call.fn = "SynapticStrength" /\ ret.some

\* C27: for a SigmoidStrength or an EmStrength (M > 0, growth constant in
\* (0,1)) made by its default constructor, after any sequence of strengthen
\* and weaken calls the strength stays within [0, M]; strengthen never lowers
\* it and weaken never raises it.
C27_StrengthBounded ==
    [][(call.fn = "SynapticStrength" /\ ret'.some) =>
          /\ dyn_get_strength(ret'.val.strength) >= 0
          /\ dyn_get_strength(ret'.val.strength) <= call.max_value
          /\ Strengthen =>
                dyn_get_strength(ret'.val.strength)
                    >= dyn_get_strength(ret.val.strength)
          /\ Weaken =>
                dyn_get_strength(ret'.val.strength)
                    <= dyn_get_strength(ret.val.strength)]_vars

\* a SigmoidStrength that was strengthened three times and weakened once: above
\* half of M and still below what one more strengthen gives
C27_WitnessSigmoid ==
    /\ StrengthCalled
    /\ call.strength_type = "SigmoidStrength"
    /\ ret.val.calls = <<"strengthen", "strengthen", "strengthen", "weaken">>
    /\ dyn_get_strength(ret.val.strength) > call.max_value \div 2
    /\ dyn_get_strength(ret.val.strength)
          < dyn_get_strength(dyn_strengthen(ret.val.strength))

\* an EmStrength after as many calls as are made, the first a strengthen and
\* the last a weaken, strictly between half of M and M
C27_Witness ==
    /\ StrengthCalled
    /\ Len(ret.val.calls) = MaxCalls
    /\ ret.val.calls[1] = "strengthen"
    /\ ret.val.calls[MaxCalls] = "weaken"
    /\ call.strength_type = "EmStrength"
    /\ call.max_value = 9 * One
    /\ get_strength(ret.val.strength) > call.max_value \div 2
    /\ get_strength(ret.val.strength) < call.max_value

\* ---- C28 ---------------------------------------------------------------
\* the inhibitory impulses among those sent to r, summed (zero or less)
InhibitionTo(r, q) ==
    SumSeq([i \in 1..Len(q) |->
              IF q[i].target = r /\ q[i].impulse < 0 THEN q[i].impulse ELSE 0])

\* what the inhibitory synapses onto r delivered in the latest cycle of the
\* given parity
InhibitionDueTo(r, cycle) ==
    SumSeq([i \in 1..Len(AllNeurons) |->
              InhibitionTo(r, SentIn(AllNeurons[i], cycle))])

\* C28: in every reachable state both charge slots (even and odd) of every
\* plastic and actuator neuron are non-negative.
C28_ChargeSlotsNonNegative ==
    \A r \in DOMAIN rx_neurons :
        /\ get_charge(rx_neurons[r].internal_charge, Even) >= 0
        /\ get_charge(rx_neurons[r].internal_charge, Odd) >= 0

\* C28 as the code has it: a charge slot is the signed sum of what was
\* delivered into it and nothing clamps it at zero; it is never below the sum
\* of the inhibitory impulses delivered into it in the latest cycle of the
\* other parity, so it is negative only when there was such an impulse.
C28_NegativeOnlyByInhibition ==
    \A r \in DOMAIN rx_neurons :
        \A slot \in {Even, Odd} :
            \/ get_charge(rx_neurons[r].internal_charge, slot) >= 0
            \/ get_charge(rx_neurons[r].internal_charge, slot)
                  >= InhibitionDueTo(r, next_cycle(slot))

\* a receiver whose slot for the coming cycle holds a negative charge, while
\* an excitatory impulse was delivered to some receiver as well
C28_Witness ==
    /\ \E r \in DOMAIN rx_neurons :
          get_charge(rx_neurons[r].internal_charge, next_cycle(CurrentCycle)) < 0
    /\ \E r \in DOMAIN rx_neurons :
          get_charge(rx_neurons[r].internal_charge, next_cycle(CurrentCycle)) > 0

\* ---- C30 ---------------------------------------------------------------
\* the places in the owner's synapse list, before its step, of the synapses
\* that are still connected after the step's update
RECURSIVE Retained(_, _, _)
Retained(old, owner, i) ==
    IF i > Len(old) THEN <<>>
    ELSE IF connected(AfterHebbianUpdate(old[i], owner))
         THEN <<i>> \o Retained(old, owner, i + 1)
         ELSE Retained(old, owner, i + 1)

\* C30: in the prune step of cycle c, if the owner fired in cycle c-2 then
\* each of its plastic synapses is strengthened exactly once when its target
\* fired in cycle c-1 and decayed exactly once otherwise; if the owner did not
\* fire in cycle c-2, no synapse strength changes in that step.
C30_HebbianUpdate ==
    [][\A n \in Neurons :
          Stepped(n) =>
              \E old \in {PlasticSynapsesOf(rx_neurons, sensory_neurons, n)} :
              \E new \in {PlasticSynapsesOf(rx_neurons', sensory_neurons', n)} :
              \E at \in {Retained(old, n, 1)} :
                  /\ Len(at) <= Len(new)
                  /\ \A j \in 1..Len(at) :
                        /\ new[j].target = old[at[j]].target
                        /\ new[j].strength.strength =
                              IF Decision(n, cycle_count - 2)
                              THEN IF Decision(old[at[j]].target, cycle_count - 1)
                                   THEN strengthen(old[at[j]].strength).strength
                                   ELSE weaken(old[at[j]].strength).strength
                              ELSE old[at[j]].strength.strength
                  /\ ~Decision(n, cycle_count - 2) => Len(at) = Len(old)]_vars

\* after the steps of one cycle: an owner that fired two cycles ago holds a
\* synapse strengthened above its starting strength, its target having fired
\* in the cycle before; an owner that fired two cycles ago holds a synapse
\* decayed below it, its target having stayed silent; an owner that did not
\* fire two cycles ago holds a synapse at its starting strength
C30_Witness ==
    /\ cycle_count >= 3
    /\ \E n \in Neurons :
          /\ Visited(n)
          /\ Decision(n, cycle_count - 2)
          /\ \E i \in 1..Len(NeuronOf(n).plastic_synapses) :
                LET syn == NeuronOf(n).plastic_synapses[i]
                IN  /\ Decision(syn.target, cycle_count - 1)
                    /\ syn.strength.strength > syn.strength.max_value \div 2
    /\ \E n \in Neurons :
          /\ Visited(n)
          /\ Decision(n, cycle_count - 2)
          /\ \E i \in 1..Len(NeuronOf(n).plastic_synapses) :
                LET syn == NeuronOf(n).plastic_synapses[i]
                IN  /\ ~Decision(syn.target, cycle_count - 1)
                    /\ syn.strength.strength < syn.strength.max_value \div 2
    /\ \E n \in Neurons :
          /\ Visited(n)
          /\ ~Decision(n, cycle_count - 2)
          /\ \E i \in 1..Len(NeuronOf(n).plastic_synapses) :
                LET syn == NeuronOf(n).plastic_synapses[i]
                IN  syn.strength.strength = syn.strength.max_value \div 2

\* ---- C29 ---------------------------------------------------------------
\* the sensor the step measures
Measuring(s) == cycle_loop.todo # <<>> /\ Head(cycle_loop.todo) = s

\* C29: in the server, with request handlers sending values concurrently with
\* the free-running cycle loop, every measure() of an HttpReqSensor returns the
\* freshest value for that sensor: the latest value sent on its channel so
\* far, or 0 if none has ever been sent.
C29_MeasureFreshest ==
    [][\A s \in Sensors :
          (Measuring(s) /\ cycle_loop'.todo # cycle_loop.todo) =>
              measured'[s] = IF latest[s].some THEN latest[s] ELSE Some(0)]_vars

\* what the code does: measure() returns the oldest value still queued on the
\* channel, else the value it returned last, else 0
C29_MeasureOldestQueued ==
    [][\A s \in Sensors :
          (Measuring(s) /\ cycle_loop'.todo # cycle_loop.todo) =>
              measured'[s] =
                  IF chan[s] # <<>> THEN Some(Head(chan[s]))
                  ELSE IF measured[s].some THEN measured[s]
                  ELSE Some(0)]_vars

\* a measure() that returned a value older than the latest one sent
C29_StaleMeasure ==
    \E s \in Sensors :
        /\ measured[s].some /\ latest[s].some
        /\ measured[s].val < latest[s].val
        /\ Len(chan[s]) = ChannelBuffer - 1
        /\ cache[s] = measured[s]

\* ---- C31 ---------------------------------------------------------------
\* C31: a plastic synapse sprouted in cycle c is Excitatory iff the owner's EMA
\* as left by cycle c-1 (before this cycle's EMA update) is strictly below
\* synapse_type_threshold and Inhibitory otherwise, and its type never changes
\* afterwards.
C31_SproutedPolarity ==
    [][\A n \in Neurons :
          Stepped(n) =>
              \E old \in {PlasticSynapsesOf(rx_neurons, sensory_neurons, n)} :
              \E new \in {PlasticSynapsesOf(rx_neurons', sensory_neurons', n)} :
              \E at \in {Retained(old, n, 1)} :
                  /\ Len(new) \in {Len(at), Len(at) + 1}
                  /\ \A j \in 1..Len(at) :
                        new[j].synaptic_type = old[at[j]].synaptic_type
                  /\ Len(new) = Len(at) + 1 =>
                        (new[Len(new)].synaptic_type = Excitatory
                            <=> NeuronOf(n).ema < cfg.synapse_type_threshold)
                  /\ Len(new) = Len(at) + 1 =>
                        new[Len(new)].synaptic_type \in {Excitatory, Inhibitory}]_vars

\* a neuron that first fired in the cycle before, which left its EMA exactly at
\* the type threshold, and has sprouted in every cycle: its synapse of this
\* cycle is inhibitory, its first one excitatory
C31_Witness ==
    \E n \in Neurons :
        /\ cycle_count >= 2
        /\ Visited(n)
        /\ cfg.ema_alpha = cfg.synapse_type_threshold
        /\ fire_log[n][cycle_count - 1]
        /\ \A c \in 1..(cycle_count - 2) : ~fire_log[n][c]
        /\ Len(NeuronOf(n).plastic_synapses) = cycle_count
        /\ NeuronOf(n).plastic_synapses[1].synaptic_type = Excitatory
        /\ NeuronOf(n).plastic_synapses[cycle_count].synaptic_type = Inhibitory

\* ---- C32 ---------------------------------------------------------------
\* the neurons that hold plastic synapses
Sprouting(n) == n \in DOMAIN sensory_neurons \/ rx_neurons[n].kind = "Plastic"

\* the locality query of n's step in the running cycle
LocalityQuery(n) ==
    local_random_neuron(ecp_geometry, rx_neurons, NeuronOf(n).loc,
                        thread_rng_words(rng_seed, NeuronOf(n).loc))

\* C32: in each cycle the plastic synapse count of each sensory or plastic
\* neuron grows by at most one: after its prune step the neuron appends exactly
\* one synapse with a fresh strength instance if it is below the cap and the
\* locality query returns a receiver, and appends nothing (leaving the list as
\* pruned) if it is at the cap or the query returns none.
C32_SproutOncePerCycle ==
    [][\A n \in Neurons :
          (Stepped(n) /\ Sprouting(n)) =>
              \E old \in {PlasticSynapsesOf(rx_neurons, sensory_neurons, n)} :
              \E new \in {PlasticSynapsesOf(rx_neurons', sensory_neurons', n)} :
              \E at \in {Retained(old, n, 1)} :
                  /\ Len(new) <= Len(old) + 1
                  /\ IF Len(at) < cfg.max_plastic_synapses
                     THEN \E q \in {LocalityQuery(n)} :
                            IF q.neuron.some
                            THEN /\ Len(new) = Len(at) + 1
                                 /\ new[Len(new)].target = q.neuron.val
                                 /\ new[Len(new)].strength =
                                       EmStrength_new(cfg.strength_max_value,
                                                      cfg.strength_weakness_threshold,
                                                      cfg.strength_alpha)
                            ELSE Len(new) = Len(at)
                     ELSE Len(new) = Len(at)]_vars

\* in the third cycle or later, after their steps: a receiver at its cap that
\* appended nothing, a receiver that has appended in every cycle and holds a
\* synapse whose strength has moved, and a sensory neuron whose query returned
\* none in every cycle
C32_Witness ==
    /\ cycle_count >= 3
    /\ \E n \in DOMAIN rx_neurons :
          /\ Visited(n)
          /\ cfg.max_plastic_synapses < cycle_count
          /\ Len(rx_neurons[n].plastic_synapses) = cfg.max_plastic_synapses
    /\ \E n \in DOMAIN sensory_neurons :
          /\ Visited(n)
          /\ cfg.max_plastic_synapses >= 1
          /\ sensory_neurons[n].plastic_synapses = <<>>

\* a neuron whose first synapse has been strengthened or decayed and whose
\* second synapse has the generator's
\* starting strength
C32_WitnessFresh ==
    \E n \in Neurons :
        /\ Visited(n)
        /\ Len(NeuronOf(n).plastic_synapses) = 2
        /\ NeuronOf(n).plastic_synapses[1].strength.strength
              # cfg.strength_max_value \div 2
        /\ NeuronOf(n).plastic_synapses[2].strength.strength
              = cfg.strength_max_value \div 2

\* ---- C33 ---------------------------------------------------------------
\* the k-th position of the z = -1 plane in row-major order, x fastest
SensoryPlanePosition(k, L) == <<(k - 1) % L, (k - 1) \div L, -1>>

\* C33: sensory enumeration (first_sensory_loc then repeated
\* next_sensory_loc) emits the positions (x, y, -1) with 0 <= x, y < L in
\* row-major order (x fastest), each exactly once and each as a
\* three-coordinate location on the z = -1 plane, and then ends.
C33_SensoryEnumeration ==
    Constructed =>
        \E L \in {ecp_geometry.side_length} :
        \E en \in {SensoryEnumeration(ecp_geometry)} :
            /\ Len(en) = L * L
            /\ \A k \in 1..Len(en) :
                  /\ en[k].loc = SensoryPlanePosition(k, L)
                  /\ en[k].hash = loc_hash(SensoryPlanePosition(k, L))

\* what the code does: the (x, y) pairs come in row-major order, each once,
\* but only the first position carries the coordinate z = -1
C33_SensoryEnumerationPlanar ==
    Constructed =>
        \E L \in {ecp_geometry.side_length} :
        \E en \in {SensoryEnumeration(ecp_geometry)} :
            /\ Len(en) = L * L
            /\ en[1].loc = <<0, 0, -1>>
            /\ \A k \in 2..Len(en) :
                  en[k].loc = SubSeq(SensoryPlanePosition(k, L), 1, 2)
            /\ \A k \in 1..Len(en) :
                  /\ en[k].hash = loc_hash(en[k].loc)
                  /\ en[k].hash \in DOMAIN sensory_neurons
                  /\ sensory_neurons[en[k].hash].loc = en[k].loc

\* ---- C34 ---------------------------------------------------------------
\* the sensory interfaces bound to the sensory neuron `key`
InterfacesOf(key) ==
    {s \in DOMAIN sensory_interfaces : sensory_interfaces[s].sensory_neuron = key}

\* C34: after construction the number of sensory neurons equals
\* geometry.numSensory and every sensory neuron is bound to exactly one sensory
\* interface, so no sensory neuron exists whose period can never be set.
C34_SensoryNeuronsBound ==
    Constructed =>
        /\ Cardinality(DOMAIN sensory_neurons) = ecp_geometry.num_sensory
        /\ \A n \in DOMAIN sensory_neurons : Cardinality(InterfacesOf(n)) = 1

\* what the code does: one sensory neuron per position of the L x L plane,
\* num_sensory of them bound to one interface each, the others to none
C34_SensoryNeuronsPerPosition ==
    Constructed =>
        /\ Cardinality(DOMAIN sensory_neurons)
              = ecp_geometry.side_length * ecp_geometry.side_length
        /\ \A n \in DOMAIN sensory_neurons : Cardinality(InterfacesOf(n)) <= 1
        /\ Cardinality({n \in DOMAIN sensory_neurons : InterfacesOf(n) # {}})
              = ecp_geometry.num_sensory

\* a side-3 encephalon with two sensors: nine sensory neurons, seven of them
\* without an interface, after a cycle has run
C34_UnboundNeurons ==
    /\ Constructed
    /\ cycle_count >= 1 /\ stage = "idle"
    /\ ecp_geometry.num_sensory = 2
    /\ Cardinality(DOMAIN sensory_neurons) = 9
    /\ Cardinality({n \in DOMAIN sensory_neurons : InterfacesOf(n) = {}}) = 7

\* ---- C35 ---------------------------------------------------------------
\* no sensory neuron has fired so far
NoSensoryFiring ==
    \A n \in DOMAIN sensory_neurons :
        \A c \in 1..Len(fire_log[n]) : ~fire_log[n][c]

\* C35: quiescence: if the fire threshold is >= 0 and no sensory neuron ever
\* fires (every period stays 0), then in every reachable state no receiver has
\* ever fired, every charge slot of every receiver is 0, every EMA is 0 and no
\* plastic synapse strength has changed, although plastic synapses may still
\* sprout.
C35_Quiescence ==
    (Constructed /\ cfg.fire_threshold >= 0 /\ NoSensoryFiring) =>
        /\ \A r \in DOMAIN rx_neurons :
              /\ \A c \in 1..Len(fire_log[r]) : ~fire_log[r][c]
              /\ get_charge(rx_neurons[r].internal_charge, Even) = 0
              /\ get_charge(rx_neurons[r].internal_charge, Odd) = 0
              /\ rx_neurons[r].ema = 0
        /\ \A n \in DOMAIN sensory_neurons : sensory_neurons[n].ema = 0
        /\ \A n \in Neurons :
              \A i \in 1..Len(NeuronOf(n).plastic_synapses) :
                  NeuronOf(n).plastic_synapses[i].strength =
                      EmStrength_new(cfg.strength_max_value,
                                     cfg.strength_weakness_threshold,
                                     cfg.strength_alpha)

\* three cycles run to their end with a fire threshold of 0 and no sensory
\* neuron firing, every receiver and the first sensory neuron having sprouted
\* up to the cap
C35_Witness ==
    /\ Constructed
    /\ NoSensoryFiring
    /\ cfg.fire_threshold = 0
    /\ cycle_count >= 3
    /\ stage = "idle"
    /\ \A r \in DOMAIN rx_neurons :
          Len(rx_neurons[r].plastic_synapses) = cfg.max_plastic_synapses
    /\ Len(sensory_neurons[first_sensory_loc.hash].plastic_synapses) = 2

\* ---- C36 ---------------------------------------------------------------
\* the synapse at place i of the owner's list, before the owner's step of the
\* running cycle, was appended by the owner's step of the cycle before
SproutedInPrevCycle(n, old, i) ==
    /\ cycle_count >= 2
    /\ i = Len(old)
    /\ sprout_log[n][cycle_count - 1]

\* SeqRange of the places kept
KeptPlaces(at) == {at[j] : j \in 1..Len(at)}

\* C36: a plastic synapse's strength is changed in the prune step of cycle c
\* only if that synapse already existed when its owner fired in cycle c-2 and
\* delivered an impulse in that firing; a synapse sprouted in cycle c-1 is
\* never strengthened or decayed in cycle c.
C36_UpdatedOnlyAfterDelivery ==
    [][\A n \in Neurons :
          Stepped(n) =>
              \E old \in {PlasticSynapsesOf(rx_neurons, sensory_neurons, n)} :
              \E new \in {PlasticSynapsesOf(rx_neurons', sensory_neurons', n)} :
              \E at \in {Retained(old, n, 1)} :
                  /\ \A j \in 1..Len(at) :
                        new[j].strength # old[at[j]].strength =>
                            /\ Decision(n, cycle_count - 2)
                            /\ ~SproutedInPrevCycle(n, old, at[j])
                  /\ \A i \in (1..Len(old)) \ KeptPlaces(at) :
                        /\ Decision(n, cycle_count - 2)
                        /\ ~SproutedInPrevCycle(n, old, i)]_vars

\* what the code does: when the owner fired in cycle c-2, the prune step of
\* cycle c updates every synapse of the list, the one appended in cycle c-1
\* included
C36_YoungSynapseUpdatedToo ==
    [][\A n \in Neurons :
          (Stepped(n) /\ cycle_count >= 2) =>
              \E old \in {PlasticSynapsesOf(rx_neurons, sensory_neurons, n)} :
              \E new \in {PlasticSynapsesOf(rx_neurons', sensory_neurons', n)} :
              \E at \in {Retained(old, n, 1)} :
                  (sprout_log[n][cycle_count - 1] /\ Decision(n, cycle_count - 2)) =>
                      /\ old # <<>>
                      /\ old[Len(old)].strength =
                            EmStrength_new(cfg.strength_max_value,
                                           cfg.strength_weakness_threshold,
                                           cfg.strength_alpha)
                      /\ \A j \in 1..Len(at) :
                            at[j] = Len(old) =>
                                new[j].strength # old[Len(old)].strength]_vars

\* an owner that fired two cycles ago, appended a synapse in the cycle before
\* and none in this one: after its step that synapse no longer has its starting
\* strength
C36_YoungSynapseUpdated ==
    \E n \in Neurons :
        /\ cycle_count >= 3
        /\ Visited(n)
        /\ fire_log[n][cycle_count - 2]
        /\ sprout_log[n][cycle_count - 1]
        /\ ~sprout_log[n][cycle_count]
        /\ NeuronOf(n).plastic_synapses # <<>>
        /\ \A i \in 1..Len(NeuronOf(n).plastic_synapses) :
              NeuronOf(n).plastic_synapses[i].strength.strength
                  # cfg.strength_max_value \div 2

\* the one synapse of the owner under PruneSpec
Pruning == call.fn = "prune_synapses" /\ ret.some

Removed == Pruning /\ ret.val.synapses = <<>>

\* a connected synapse whose decay leaves the stored number where it was
Stalled ==
    /\ Pruning
    /\ ret.val.synapses # <<>>
    /\ dyn_connected(ret.val.synapses[1])
    /\ dyn_weaken(ret.val.synapses[1].strength) = ret.val.synapses[1].strength

\* C37 as stated: with a weakness threshold above zero, an owner that fires
\* infinitely often, and a target that is silent at every prune step, the
\* synapse is eventually removed from the owner's list, for the sigmoid and
\* for the EM strength alike
C37_EventuallyPruned == <>Removed

\* C37: under the same conditions the synapse is eventually removed unless
\* its strength has reached a value, still above the threshold, that one more
\* decay rounds back to itself
C37_EventuallyPrunedUnlessStalled == <>(Removed \/ Stalled)

\* a sigmoid or EM synapse that was connected when sprouted and has been
\* removed by the decays of its owner's prune steps
C37_Witness ==
    /\ Removed
    /\ dyn_connected(PlasticSynapse_new(NewStrength(call), Excitatory, "t"))

C37_WitnessSigmoid == C37_Witness /\ call.strength_type = "SigmoidStrength"

C37_WitnessEm == C37_Witness /\ call.strength_type = "EmStrength"

FireTested == call.fn = "SensoryNeuron::run_cycle" /\ ret.some

\* the counter is below 2^32
FitsU32(c) == c[1] = 0 /\ c[2] = 0

\* C38 as stated: for every value c of the u64 cycle counter, beyond 2^32
\* included, the sensory neuron fires iff its period is not 0 and
\* c mod period = 0, c being the counter that gives the charge parity
C38_FiresOnCounter ==
    FireTested =>
        (ret.val.fires <=>
            (call.period # 0 /\ u64_rem(call.cycle_count, call.period) = 0))

\* what the code does: the test is made on the low 32 bits of the counter, so
\* it agrees with c mod period for every c below 2^32, while the charge
\* parity is that of the whole counter
C38_FiresOnLow32Bits ==
    FireTested =>
        /\ ret.val.fires <=>
               (call.period # 0
                /\ u64_rem(as_u32(call.cycle_count), call.period) = 0)
        /\ FitsU32(call.cycle_count) =>
               (ret.val.fires <=>
                   (call.period # 0
                    /\ u64_rem(call.cycle_count, call.period) = 0))
        /\ ret.val.current_cycle = Even <=> call.cycle_count[4] % 2 = 0

\* the cycle 2^32 with period 3: 2^32 mod 3 = 1, and the neuron fires
C38_FiresOffPeriod ==
    /\ FireTested
    /\ call.cycle_count = <<0, 1, 0, 0>>
    /\ call.period = 3
    /\ ret.val.fires

\* send_all has returned for the latest request
Handling == "result" \in DOMAIN sender

Returned == Handling /\ sender.next = 0 /\ sender.result \in {"Ok", "Full"}

\* the sensors of the first k places of send_all's order
SentFirst(k) == {SendOrder[i] : i \in 1..k}

\* C39 as stated: send_all delivers a bundle atomically; whatever the cycle
\* loop does meanwhile and however full the channels are, either each of the
\* eight channels has received its value of the bundle or none has
C39_AtomicBundle ==
    Returned => sender.delivered \in {{}, Sensors}

\* what the code does: the channels that received their value are the ones
\* that come first in send_all's order, all eight when it returns Ok and the
\* ones before the first full channel when it returns the error
C39_DeliveredUpToFullChannel ==
    /\ Handling => \E k \in 0..Len(SendOrder) : sender.delivered = SentFirst(k)
    /\ Returned /\ sender.result = "Ok" => sender.delivered = Sensors
    /\ Returned /\ sender.result = "Full" => sender.delivered # Sensors

\* a bundle that reached the forward channel and was stopped by a full
\* forward_pain channel
C39_PartialBundle ==
    /\ Returned
    /\ sender.result = "Full"
    /\ sender.delivered = {"forward"}

====
